---- MODULE Spec2Model ----
(***************************************************************************)
(* Desaigner: the agent loop (runAIAgentWorkflow), the editor's            *)
(* handleSendMessage with saveProject, the streaming section parser        *)
(* (streamAIAgentResponse) and the block parser (parseOperationsResponse). *)
(***************************************************************************)
EXTENDS Integers, Sequences, FiniteSets, TLC

\* ------------------------------------------------------------------------
\* Bounds of the model and constants of the program
\* ------------------------------------------------------------------------

\* loopCount > 20 is the runaway guard of runAIAgentWorkflow
MaxSteps == 20

\* longest cycle of scripted transport answers
MaxCycle == 2

NULL == "<null>"

\* ------------------------------------------------------------------------
\* State
\* ------------------------------------------------------------------------
VARIABLES
  script,              \* the transport's answers: turn i gets script[((i-1) % Len) + 1]
  pc,                  \* position of handleSendMessage / runAIAgentWorkflow / saveProject
  loopCount,           \* runAIAgentWorkflow: loopCount
  conversationHistory, \* runAIAgentWorkflow: conversationHistory
  nRequests,           \* number of puter.ai.chat requests issued by callAIAgent
  wfResult,            \* value returned by runAIAgentWorkflow (<<>> while none)
  wfError,             \* error caught by handleSendMessage (<<>> while none)
  projectFiles,        \* project.files (React state, mirrored by projectRef)
  projectForAI,        \* projectForAI.files: the snapshot handed to the workflow
  thoughts,            \* thoughts of the last assistant chat message
  assistantContent,    \* content of the last assistant chat message
  selectedFilePath, editorContent, isEditorDirty, isLoading,
  storedFiles,         \* Puter FS: files under <project>/src, as a set of files
  storedMeta,          \* Puter FS: project.json (the assistant message it records)
  saveArg,             \* saveProject: the files of its argument
  saveIdx,             \* saveProject: index of the next file to write
  saveCont,            \* who awaits saveProject: "presend", "send" or "json"
  startFiles,          \* project.files when the workflow run started
  startStored,         \* storedFiles when the workflow run started
  \* streamAIAgentResponse
  text,                \* the whole response the transport will stream
  rest,                \* the part of it that has not arrived yet
  parts,              \* fragments (`part.text`) received so far
  buffer, currentSection, currentFilePath,
  chunks,              \* the StreamChunks yielded so far
  streamPc,            \* "open" while iterating, then "ended" or "failed"
  \* parseOperationsResponse
  response,            \* the text handed to the parser
  parsed,              \* <<>> before the call, then what it returned or threw
  \* handleSendMessage of the JSON dialect
  streamed,            \* the text streamAIAgentWorkflow will deliver through onChunk
  responseBuffer,      \* responseBuffer: the chunks received, concatenated
  \* applyOperation on arrays with identity
  heap,                \* the arrays allocated so far: heap[r] is the content of array r
  filesRef,            \* the array that holds the file collection now
  argRef,              \* the array the last call got as currentFiles (0 before any call)
  applied,             \* the operations passed to applyOperation so far, in order
  before,              \* before[k]: what the collection held when call k was made
  outcome,             \* how the last call ended ("none" before any call)
  variant,             \* which applyOperation of the source runs
  \* a save from the editor while a run is in flight
  manualPc,            \* position of a handleSaveFile started from the editor
  \* getBlobId of projectService
  jsonBlobIdPromise,   \* the module-level promise: 0 for null, else an index of promises
  promises,            \* the promises getBlobId created: their state and value
  storedId,            \* localStorage item ai_web_builder_jsonblob_id: <<>> when absent, else <<id>>
  callers,             \* where every caller of getProjects stands
  createRequests,      \* POST requests issued so far
  established          \* <<id>> of the last attempt that succeeded since the last
                       \* invalidateJsonBlobId (<<>> when there is none)

runVars == <<loopCount, conversationHistory, nRequests, wfResult, wfError>>
chatVars == <<thoughts, assistantContent>>
editorVars == <<selectedFilePath, editorContent, isEditorDirty>>
storeVars == <<storedFiles, storedMeta>>
saveVars == <<saveArg, saveIdx, saveCont>>
startVars == <<startFiles, startStored>>

agentVars == <<script, pc, runVars, projectFiles, projectForAI, chatVars, editorVars,
               isLoading, storeVars, saveVars, startVars>>

streamVars == <<text, rest, parts, buffer, currentSection, currentFilePath, chunks, streamPc>>

parseVars == <<response, parsed>>

jsonVars == <<streamed, responseBuffer>>

reducerVars == <<heap, filesRef, argRef, applied, before, outcome, variant>>

blobVars == <<jsonBlobIdPromise, promises, storedId, callers, createRequests, established>>

nonAgentVars == <<streamVars, parseVars, jsonVars, reducerVars, manualPc, blobVars>>
nonManualVars == <<streamVars, parseVars, jsonVars, reducerVars, blobVars>>
nonStreamVars == <<agentVars, parseVars, jsonVars, reducerVars, manualPc, blobVars>>
nonParseVars == <<agentVars, streamVars, jsonVars, reducerVars, manualPc, blobVars>>
nonEditorVars == <<streamVars, parseVars, reducerVars, manualPc, blobVars>>
nonReducerVars == <<agentVars, streamVars, parseVars, jsonVars, manualPc, blobVars>>
nonBlobVars == <<agentVars, streamVars, parseVars, jsonVars, reducerVars, manualPc>>

vars == <<agentVars, streamVars, parseVars, jsonVars, reducerVars, manualPc, blobVars>>

\* ------------------------------------------------------------------------
\* Values: files, operations, tool calls, transport answers
\* ------------------------------------------------------------------------
File(p, c) == [path |-> p, content |-> c]

\* a FileOperation as it arrives in the tool arguments: content may be absent
Op(kind, p, c) == [operation |-> kind, path |-> p, content |-> c, hasContent |-> TRUE]
OpNoContent(kind, p) == [operation |-> kind, path |-> p, content |-> "", hasContent |-> FALSE]

\* JSON arguments of a tool call; ok = FALSE stands for text JSON.parse rejects
NoArgs == [ok |-> TRUE, thought |-> "", paths |-> <<>>, pathsIsArray |-> FALSE,
           explanation |-> "", operations |-> <<>>, opsIsArray |-> FALSE]
BadJson == [NoArgs EXCEPT !.ok = FALSE]
ThinkArgs(t) == [NoArgs EXCEPT !.thought = t]
ReadArgs(ps) == [NoArgs EXCEPT !.paths = ps, !.pathsIsArray = TRUE]
ApplyArgs(e, ops) == [NoArgs EXCEPT !.explanation = e, !.operations = ops, !.opsIsArray = TRUE]
ApplyArgsNoArray(e) == [NoArgs EXCEPT !.explanation = e]

Call(n, a) == [name |-> n, arguments |-> a]

\* what puter.ai.chat answers: response.message, or a rejected promise (fail)
Answer(cs, t) == [fail |-> FALSE, tool_calls |-> cs, content |-> t]
Calls(cs) == Answer(cs, "")
Fail == [fail |-> TRUE, tool_calls |-> <<>>, content |-> ""]

\* a ChatMessage of the conversation; content is <<>> for null
Msg(r, c, tcs, id) == [role |-> r, content |-> c, tool_calls |-> tcs, tool_call_id |-> id]

\* ------------------------------------------------------------------------
\* Operation reducer (applyOperation of the editor component)
\* ------------------------------------------------------------------------
\* `content = ''` of the destructuring: an absent content reads as the empty string
OpContent(op) == IF op.hasContent THEN op.content ELSE ""

FileExists_never(files, path) == FALSE

FileExists(files, path) == \E i \in 1..Len(files) : files[i].path = path

SetContent(files, path, content) ==
  [i \in 1..Len(files) |-> IF files[i].path = path THEN File(path, content) ELSE files[i]]

RemovePath(files, path) == SelectSeq(files, LAMBDA f : f.path # path)

applyOperation(currentFiles, operation) ==
  LET path == operation.path
      content == OpContent(operation)
      fileExists == FileExists(currentFiles, path)
  IN CASE operation.operation = "CREATE" ->
            IF fileExists THEN SetContent(currentFiles, path, content)
            ELSE Append(currentFiles, File(path, content))
       [] operation.operation = "UPDATE" ->
            IF ~fileExists THEN Append(currentFiles, File(path, content))
            ELSE SetContent(currentFiles, path, content)
       [] operation.operation = "DELETE" -> RemovePath(currentFiles, path)
       [] OTHER -> currentFiles   \* default: console.warn, files returned as they are

RECURSIVE ApplyAll_reversed(_, _)
ApplyAll_reversed(files, ops) ==
  IF ops = <<>> THEN files
  ELSE applyOperation(ApplyAll_reversed(files, Tail(ops)), Head(ops))

\* for (const op of result.operations) updatedFiles = applyOperation(updatedFiles, op)
RECURSIVE ApplyAll(_, _)
ApplyAll(files, ops) ==
  IF ops = <<>> THEN files ELSE ApplyAll(applyOperation(files, Head(ops)), Tail(ops))

\* ------------------------------------------------------------------------
\* callAIAgent and the tools of runAIAgentWorkflow
\* ------------------------------------------------------------------------
\* tc.id = `call_${Math.random()...}`: a fresh id per call, here (turn, index)
WithIds(cs, turn) ==
  [i \in 1..Len(cs) |-> [id |-> <<turn, i>>, name |-> cs[i].name, arguments |-> cs[i].arguments]]

Text(t) == IF t = "" THEN <<>> ELSE <<"text", t>>

\* callAIAgent without its `else if (message.content)` branch
callAIAgent_contentAsEmpty(message, turn) ==
  IF Len(message.tool_calls) > 0
  THEN [assistantMessage |-> Msg("assistant", Text(message.content), WithIds(message.tool_calls, turn), <<>>),
        functionCalls |-> WithIds(message.tool_calls, turn),
        conversationalText |-> ""]
  ELSE [assistantMessage |-> Msg("assistant", Text(message.content), <<>>, <<>>),
        functionCalls |-> <<>>,
        conversationalText |-> ""]

\* what callAIAgent returns for the message of a transport answer
callAIAgent(message, turn) ==
  IF Len(message.tool_calls) > 0
  THEN [assistantMessage |-> Msg("assistant", Text(message.content), WithIds(message.tool_calls, turn), <<>>),
        functionCalls |-> WithIds(message.tool_calls, turn),
        conversationalText |-> ""]
  ELSE IF message.content # ""
  THEN [assistantMessage |-> Msg("assistant", Text(message.content), <<>>, <<>>),
        functionCalls |-> <<>>,
        conversationalText |-> message.content]
  ELSE [assistantMessage |-> Msg("assistant", <<>>, <<>>, <<>>),
        functionCalls |-> <<>>,
        conversationalText |-> ""]

\* fileMap.get(path) of `new Map(files.map(f => [f.path, f.content]))`: the last entry wins
FileMapGet(files, path) ==
  LET idx == {i \in 1..Len(files) : files[i].path = path}
      last == CHOOSE i \in idx : \A j \in idx : j <= i
  IN files[last].content

\* the read_file branch without its `fileMap.has(path)` test
ReadFileEntry_blank(files, path) ==
  IF FileExists(files, path) THEN <<"content", path, FileMapGet(files, path)>>
  ELSE <<"content", path, "">>

\* one element of `contents` in the read_file branch
ReadFileEntry(files, path) ==
  IF FileExists(files, path) THEN <<"content", path, FileMapGet(files, path)>>
  ELSE <<"not_found", path>>

ReadFileEntries(files, paths) == [i \in 1..Len(paths) |-> ReadFileEntry(files, paths[i])]

\* onThought calls of the read_file branch: the announcement, then one per missing path
RECURSIVE MissingThoughts(_, _)
MissingThoughts(files, paths) ==
  IF paths = <<>> THEN <<>>
  ELSE (IF FileExists(files, Head(paths)) THEN <<>> ELSE << <<"missing", Head(paths)>> >>)
       \o MissingThoughts(files, Tail(paths))

ToolMsg(id, c) == Msg("tool", c, <<>>, id)

\* the loop body with a think branch that records the result but never calls onThought
ExecuteCall_silentThink(call, files) ==
  LET args == call.arguments
      none == [thoughts |-> <<>>, responses |-> <<>>]
  IN IF ~args.ok
     THEN [thoughts |-> <<>>, responses |-> <<ToolMsg(call.id, <<"parse_error", call.name>>)>>]
     ELSE IF call.name = "think"
     THEN IF args.thought # ""
          THEN [thoughts |-> <<>>,
                responses |-> <<ToolMsg(call.id, <<"think", args.thought>>)>>]
          ELSE none
     ELSE IF call.name = "read_file"
     THEN IF args.pathsIsArray /\ Len(args.paths) > 0
          THEN [thoughts |-> << <<"reading", args.paths>> >> \o MissingThoughts(files, args.paths),
                responses |-> <<ToolMsg(call.id, <<"read_file", ReadFileEntries(files, args.paths)>>)>>]
          ELSE [thoughts |-> <<>>, responses |-> <<ToolMsg(call.id, <<"read_file_error">>)>>]
     ELSE none

\* body of `for (const call of functionCalls)`: the thoughts reported and the
\* tool responses pushed for one call
ExecuteCall(call, files) ==
  LET args == call.arguments
      none == [thoughts |-> <<>>, responses |-> <<>>]
  IN IF ~args.ok
     THEN [thoughts |-> <<>>, responses |-> <<ToolMsg(call.id, <<"parse_error", call.name>>)>>]
     ELSE IF call.name = "think"
     THEN IF args.thought # ""
          THEN [thoughts |-> << <<"think", args.thought>> >>,
                responses |-> <<ToolMsg(call.id, <<"think", args.thought>>)>>]
          ELSE none
     ELSE IF call.name = "read_file"
     THEN IF args.pathsIsArray /\ Len(args.paths) > 0
          THEN [thoughts |-> << <<"reading", args.paths>> >> \o MissingThoughts(files, args.paths),
                responses |-> <<ToolMsg(call.id, <<"read_file", ReadFileEntries(files, args.paths)>>)>>]
          ELSE [thoughts |-> <<>>, responses |-> <<ToolMsg(call.id, <<"read_file_error">>)>>]
     ELSE none

RECURSIVE ExecuteCalls(_, _)
ExecuteCalls(calls, files) ==
  IF calls = <<>> THEN [thoughts |-> <<>>, responses |-> <<>>]
  ELSE LET h == ExecuteCall(Head(calls), files)
           t == ExecuteCalls(Tail(calls), files)
       IN [thoughts |-> h.thoughts \o t.thoughts, responses |-> h.responses \o t.responses]

IsFinalCall(c) == c.name = "apply_project_changes"

\* a find that looks at the first call only
FindFinalCall_onlyFirst(calls) == IF calls # <<>> /\ IsFinalCall(calls[1]) THEN 1 ELSE 0

\* functionCalls.find(c => c.name === 'apply_project_changes'): index of the first, or 0
FindFinalCall(calls) ==
  IF \E i \in 1..Len(calls) : IsFinalCall(calls[i])
  THEN CHOOSE i \in 1..Len(calls) :
         IsFinalCall(calls[i]) /\ \A j \in 1..(i - 1) : ~IsFinalCall(calls[j])
  ELSE 0

\* JSON.parse succeeded, args.explanation is truthy and args.operations is an array
ValidFinalArgs(args) == args.ok /\ args.explanation # "" /\ args.opsIsArray

\* a return that loses the operations of the call
FinalResult_noOperations(args) == [explanation |-> args.explanation, operations |-> <<>>]

\* `return args as { explanation, operations }`
FinalResult(args) == [explanation |-> args.explanation, operations |-> args.operations]

\* the guard one turn late
ExceededMaxSteps_late(count) == count > MaxSteps + 1

ExceededMaxSteps(count) == count > MaxSteps

ErrExhausted == <<"Error", "AI agent exceeded maximum steps without finishing.">>
ErrConversational(t) == <<"AIConversationalError", "The AI responded conversationally: ", t>>
ErrInvalidChanges == <<"Error", "AI returned invalid data structure for file changes.">>
ErrTransport == <<"Error", "transport">>
ErrStore == <<"Error", "puter.fs">>

\* ------------------------------------------------------------------------
\* Inputs: scripted transports, initial projects
\* ------------------------------------------------------------------------
Think(t) == Call("think", ThinkArgs(t))
ReadFile(ps) == Call("read_file", ReadArgs(ps))
Apply(e, ops) == Call("apply_project_changes", ApplyArgs(e, ops))

OpsUpdateA == <<Op("UPDATE", "a", "n")>>
OpsCreateDelete == <<Op("CREATE", "c", "n"), OpNoContent("DELETE", "a")>>
OpsUpdateB == <<Op("UPDATE", "b", "n")>>
OpsTwiceA == <<Op("UPDATE", "a", "n"), Op("UPDATE", "a", "m")>>
OpsBadKind == <<Op("UPDATE", "a", "n"), Op("RENAME", "b", "n")>>
OpsEmptyPath == <<Op("CREATE", "c", "n"), Op("UPDATE", "", "n")>>
OpsNoContent == <<Op("CREATE", "c", "n"), OpNoContent("UPDATE", "a")>>

\* answers after which the loop goes on
NonFinalAnswers ==
  { Calls(<<Think("t1")>>),
    Calls(<<Think("")>>),
    Calls(<<Call("think", BadJson)>>),
    Calls(<<ReadFile(<<"zz", "a">>)>>),
    Calls(<<Call("read_file", NoArgs)>>),
    Calls(<<Call("search", NoArgs)>>),
    Calls(<<Think("t2"), ReadFile(<<"b", "zz">>)>>),
    Answer(<<Think("t1")>>, "Sorry"),
    Answer(<<>>, "") }

\* answers that end the run
FinalAnswers ==
  { Fail,
    Answer(<<>>, "Sorry"),
    Calls(<<Apply("e1", OpsUpdateA)>>),
    Calls(<<Apply("e1", OpsUpdateB)>>),
    Calls(<<Apply("e1", OpsCreateDelete)>>),
    Calls(<<Apply("e1", OpsTwiceA)>>),
    Calls(<<Apply("e1", OpsBadKind)>>),
    Calls(<<Apply("e1", OpsEmptyPath)>>),
    Calls(<<Apply("e1", OpsNoContent)>>),
    Calls(<<Apply("e1", <<>>)>>),
    Calls(<<Apply("", OpsUpdateA)>>),
    Calls(<<Call("apply_project_changes", ApplyArgsNoArray("e1"))>>),
    Calls(<<Call("apply_project_changes", BadJson)>>),
    Calls(<<Think("t1"), Apply("e1", OpsUpdateA)>>),
    Calls(<<Apply("e1", OpsUpdateA), ReadFile(<<"a", "zz">>), Think("t2")>>),
    Calls(<<Apply("e1", OpsUpdateA), Apply("e2", OpsCreateDelete)>>) }

\* a script is a cycle of answers; an answer after a final one is never asked for
Scripts ==
  UNION { { pre \o <<last>> : pre \in [1..(n - 1) -> NonFinalAnswers],
                              last \in NonFinalAnswers \cup FinalAnswers } : n \in 1..MaxCycle }

ScriptAt(turn) == script[((turn - 1) % Len(script)) + 1]

InitialFiles == { <<File("a", "x"), File("b", "y")>> }

FileSet(files) == {files[i] : i \in 1..Len(files)}

\* ------------------------------------------------------------------------
\* handleSendMessage, runAIAgentWorkflow, saveProject
\* ------------------------------------------------------------------------
InitAgent ==
  /\ script \in Scripts
  /\ pc = "idle"
  /\ loopCount = 0
  /\ conversationHistory = <<>>
  /\ nRequests = 0
  /\ wfResult = <<>>
  /\ wfError = <<>>
  /\ projectFiles \in InitialFiles
  /\ projectForAI = projectFiles
  /\ thoughts = <<>>
  /\ assistantContent = <<>>
  /\ \/ selectedFilePath = NULL /\ editorContent = "" /\ isEditorDirty = FALSE
     \/ /\ selectedFilePath = projectFiles[1].path
        /\ \/ editorContent = projectFiles[1].content /\ isEditorDirty = FALSE
           \/ editorContent = "edited" /\ isEditorDirty = TRUE
  /\ isLoading = FALSE
  /\ storedFiles = FileSet(projectFiles)
  /\ storedMeta = <<>>
  /\ saveArg = <<>>
  /\ saveIdx = 0
  /\ saveCont = "none"
  /\ startFiles = projectFiles
  /\ startStored = storedFiles
  \* no stream is open and no response is being parsed
  /\ text = <<>> /\ rest = <<>> /\ parts = <<>> /\ buffer = <<>>
  /\ currentSection = NULL /\ currentFilePath = <<>> /\ chunks = <<>> /\ streamPc = "off"
  /\ response = <<>> /\ parsed = <<>>
  /\ streamed = <<>> /\ responseBuffer = <<>>
  /\ heap = <<>> /\ filesRef = 0 /\ argRef = 0 /\ applied = <<>> /\ before = <<>>
  /\ outcome = "none" /\ variant = "none"
  /\ manualPc = "none"
  /\ jsonBlobIdPromise = 0 /\ promises = <<>> /\ storedId = <<>> /\ callers = <<>>
  /\ createRequests = 0 /\ established = <<>>

ErrMessage(err) == <<"Sorry, an error occurred: ">> \o Tail(err)

\* a catch without the finally block: the loading flag is left as it is
Catch_keepsLoading(err) ==
  /\ wfError' = err
  /\ assistantContent' = ErrMessage(err)
  /\ isLoading' = isLoading
  /\ pc' = "done"

\* a catch that leaves the content of the assistant message as it is
Catch_keepsContent(err) ==
  /\ wfError' = err
  /\ assistantContent' = assistantContent
  /\ isLoading' = FALSE
  /\ pc' = "done"

\* catch and finally of handleSendMessage
Catch(err) ==
  /\ wfError' = err
  /\ assistantContent' = ErrMessage(err)
  /\ isLoading' = FALSE
  /\ pc' = "done"

\* top of `while (true)` with loopCount = count, up to the await of callAIAgent
LoopTop(count, loading, content) ==
  /\ loopCount' = count + 1
  /\ IF ExceededMaxSteps(count + 1)
     THEN /\ Catch(ErrExhausted)
          /\ nRequests' = nRequests
     ELSE /\ nRequests' = nRequests + 1
          /\ pc' = "awaiting"
          /\ wfError' = <<>>
          /\ assistantContent' = content
          /\ isLoading' = loading

SystemAndUser == <<Msg("system", <<"text", "systemPrompt">>, <<>>, <<>>),
                   Msg("user", <<"text", "userGoal">>, <<>>, <<>>)>>

\* handleSendMessage from setIsLoading(true) to the first await of the workflow
BeginRun ==
  /\ thoughts' = <<>>
  /\ projectForAI' = projectFiles
  /\ conversationHistory' = SystemAndUser
  /\ wfResult' = <<>>
  /\ startFiles' = projectFiles
  /\ startStored' = storedFiles
  /\ LoopTop(0, TRUE, <<>>)

\* handleSaveFile as awaited by handleSendMessage, up to its await of saveProject
handleSaveFile ==
  LET updatedFiles == SetContent(projectFiles, selectedFilePath, editorContent)
  IN /\ projectFiles' = updatedFiles
     /\ saveArg' = updatedFiles
     /\ saveIdx' = 1
     /\ saveCont' = "presend"
     /\ pc' = "save_base"

handleSendMessage ==
  /\ pc = "idle"
  /\ \E confirm \in BOOLEAN :
       IF isEditorDirty /\ confirm /\ selectedFilePath # NULL
       THEN /\ handleSaveFile
            /\ UNCHANGED <<script, runVars, projectForAI, chatVars, editorVars, isLoading,
                           storeVars, startVars>>
       ELSE /\ BeginRun
            /\ UNCHANGED <<script, projectFiles, editorVars, storeVars, saveVars>>
  /\ UNCHANGED nonAgentVars

\* handleSendMessage after runAIAgentWorkflow returned, up to the await in saveProject
Commit(result) ==
  LET ops == result.operations
      updatedFiles == ApplyAll(projectForAI, ops)
      hits == {i \in 1..Len(ops) : ops[i].path = selectedFilePath}
      fileChanged == ops[CHOOSE i \in hits : \A j \in hits : i <= j]
  IN /\ wfResult' = <<result>>
     /\ IF hits # {}
        THEN /\ IF fileChanged.operation = "DELETE"
                THEN selectedFilePath' = NULL /\ editorContent' = ""
                ELSE editorContent' = OpContent(fileChanged) /\ UNCHANGED selectedFilePath
             /\ isEditorDirty' = FALSE
        ELSE UNCHANGED editorVars
     /\ projectFiles' = updatedFiles
     /\ assistantContent' = <<"text", result.explanation>>
     /\ saveArg' = updatedFiles
     /\ saveIdx' = 1
     /\ saveCont' = "send"
     /\ pc' = "save_base"

\* the answer of the request in flight arrives: the rest of the loop body
AgentResponse ==
  /\ pc = "awaiting"
  /\ LET answer == ScriptAt(loopCount)
         responseJson == callAIAgent(answer, loopCount)
         history == Append(conversationHistory, responseJson.assistantMessage)
         functionCalls == responseJson.functionCalls
         final == FindFinalCall(functionCalls)
         done == ExecuteCalls(functionCalls, projectForAI)
     IN IF answer.fail
        THEN /\ Catch(ErrTransport)
             /\ UNCHANGED <<loopCount, conversationHistory, nRequests, wfResult, thoughts,
                            projectFiles, editorVars, saveVars>>
        ELSE IF responseJson.conversationalText # ""
        THEN /\ conversationHistory' = history
             /\ Catch(ErrConversational(responseJson.conversationalText))
             /\ UNCHANGED <<loopCount, nRequests, wfResult, thoughts,
                            projectFiles, editorVars, saveVars>>
        ELSE IF final # 0
        THEN /\ conversationHistory' = history
             /\ IF ValidFinalArgs(functionCalls[final].arguments)
                THEN /\ Commit(FinalResult(functionCalls[final].arguments))
                     /\ UNCHANGED <<loopCount, nRequests, wfError, thoughts, isLoading>>
                ELSE /\ Catch(ErrInvalidChanges)
                     /\ UNCHANGED <<loopCount, nRequests, wfResult, thoughts,
                                    projectFiles, editorVars, saveVars>>
        ELSE /\ conversationHistory' = history \o done.responses
             /\ thoughts' = thoughts \o done.thoughts
             /\ LoopTop(loopCount, isLoading, assistantContent)
             /\ UNCHANGED <<wfResult, projectFiles, editorVars, saveVars>>
  /\ UNCHANGED <<script, projectForAI, storeVars, startVars>>
  /\ UNCHANGED nonAgentVars

\* catch and finally of the JSON dialect's handleSendMessage: the message shows
\* the error followed by the raw response
CatchJson(err) ==
  /\ wfError' = err
  /\ assistantContent' = ErrMessage(err) \o <<"Raw Response">>
  /\ isLoading' = FALSE
  /\ pc' = "done"

\* an exception of saveProject reaches whoever awaits it
SaveThrows ==
  IF saveCont = "send"
  THEN /\ Catch(ErrStore)
       /\ UNCHANGED isEditorDirty
  ELSE IF saveCont = "json"
  THEN /\ CatchJson(ErrStore)
       /\ UNCHANGED isEditorDirty
  ELSE \* handleSaveFile was awaited outside the try block: the handler is abandoned
       /\ wfError' = <<"Unhandled", "puter.fs">>
       /\ pc' = "done"
       /\ UNCHANGED <<assistantContent, isLoading, isEditorDirty>>

\* await ensureBaseDir(): stat, and mkdir when stat fails
SaveEnsureBaseDir ==
  /\ pc = "save_base"
  /\ \E ok \in BOOLEAN :
       IF ok THEN pc' = "save_meta" /\ UNCHANGED <<wfError, assistantContent, isLoading, isEditorDirty>>
       ELSE SaveThrows
  /\ UNCHANGED <<script, loopCount, conversationHistory, nRequests, wfResult, projectFiles,
                 projectForAI, thoughts, selectedFilePath, editorContent, storeVars, saveVars,
                 startVars>>
  /\ UNCHANGED nonAgentVars

\* await puter.fs.write(metaPath, ...)
SaveWriteMeta ==
  /\ pc = "save_meta"
  /\ \E ok \in BOOLEAN :
       IF ok
       THEN /\ storedMeta' = assistantContent
            /\ pc' = "save_clean"
            /\ UNCHANGED <<wfError, assistantContent, isLoading, isEditorDirty>>
       ELSE SaveThrows /\ UNCHANGED storedMeta
  /\ UNCHANGED <<script, loopCount, conversationHistory, nRequests, wfResult, projectFiles,
                 projectForAI, thoughts, selectedFilePath, editorContent, storedFiles, saveVars,
                 startVars>>
  /\ UNCHANGED nonAgentVars

\* await puter.fs.delete(filesPath, {recursive}) inside try/catch: a failure is swallowed
SaveCleanDir ==
  /\ pc = "save_clean"
  /\ \E ok \in BOOLEAN : storedFiles' = IF ok THEN {} ELSE storedFiles
  /\ pc' = "save_mkdir"
  /\ UNCHANGED <<script, runVars, projectFiles, projectForAI, chatVars, editorVars, isLoading,
                 storedMeta, saveVars, startVars>>
  /\ UNCHANGED nonAgentVars

\* await puter.fs.mkdir(filesPath, ...)
SaveMkdir ==
  /\ pc = "save_mkdir"
  /\ \E ok \in BOOLEAN :
       IF ok THEN pc' = "save_write" /\ UNCHANGED <<wfError, assistantContent, isLoading, isEditorDirty>>
       ELSE SaveThrows
  /\ UNCHANGED <<script, loopCount, conversationHistory, nRequests, wfResult, projectFiles,
                 projectForAI, thoughts, selectedFilePath, editorContent, storeVars, saveVars,
                 startVars>>
  /\ UNCHANGED nonAgentVars

FsWrite(stored, file) == {f \in stored : f.path # file.path} \cup {file}

\* one iteration of `for (const file of files) await puter.fs.write(...)`
SaveWriteFile ==
  /\ pc = "save_write"
  /\ saveIdx <= Len(saveArg)
  /\ \E ok \in BOOLEAN :
       IF ok
       THEN /\ storedFiles' = FsWrite(storedFiles, saveArg[saveIdx])
            /\ saveIdx' = saveIdx + 1
            /\ UNCHANGED <<pc, wfError, assistantContent, isLoading, isEditorDirty>>
       ELSE SaveThrows /\ UNCHANGED <<storedFiles, saveIdx>>
  /\ UNCHANGED <<script, loopCount, conversationHistory, nRequests, wfResult, projectFiles,
                 projectForAI, thoughts, selectedFilePath, editorContent, storedMeta, saveArg,
                 saveCont, startVars>>
  /\ UNCHANGED nonAgentVars

\* saveProject returns: the rest of handleSendMessage (signalPreviewUpdate, finally),
\* or the rest of handleSaveFile and then the run
SaveReturn ==
  /\ pc = "save_write"
  /\ saveIdx > Len(saveArg)
  /\ IF saveCont \in {"send", "json"}
     THEN /\ isLoading' = FALSE
          /\ pc' = "done"
          /\ UNCHANGED <<runVars, projectForAI, chatVars, isEditorDirty, startVars>>
     ELSE /\ isEditorDirty' = FALSE
          /\ BeginRun
  /\ UNCHANGED <<script, projectFiles, selectedFilePath, editorContent, storeVars, saveVars>>
  /\ UNCHANGED nonAgentVars

NextAgent ==
  \/ handleSendMessage
  \/ AgentResponse
  \/ SaveEnsureBaseDir
  \/ SaveWriteMeta
  \/ SaveCleanDir
  \/ SaveMkdir
  \/ SaveWriteFile
  \/ SaveReturn

Spec == InitAgent /\ [][NextAgent]_vars

\* the event loop delivers every pending answer and file-system completion
FairSpec == Spec /\ WF_vars(NextAgent)

\* ------------------------------------------------------------------------
\* The editor stays usable while a run is in flight: CodeEditor is rendered
\* with onSave={handleSaveFile} whatever isLoading is.
\* ------------------------------------------------------------------------
\* handleSaveFile called from the editor during a run, up to its await of
\* saveProject: setProject(updatedProject)
handleSaveFileManual ==
  /\ pc = "awaiting"
  /\ manualPc = "none"
  /\ selectedFilePath # NULL
  /\ isEditorDirty
  /\ projectFiles' = SetContent(projectFiles, selectedFilePath, editorContent)
  /\ manualPc' = "saving"
  /\ UNCHANGED <<script, pc, runVars, projectForAI, chatVars, editorVars, isLoading,
                 storeVars, saveVars, startVars>>
  /\ UNCHANGED nonManualVars

\* the saveProject of that handleSaveFile settles while the run still waits
\* for the transport: the files are stored and the dirty flag is cleared, or
\* the rejection leaves the handler
ManualSaveSettles ==
  /\ pc = "awaiting"
  /\ manualPc = "saving"
  /\ \E ok \in BOOLEAN :
       IF ok
       THEN /\ storedFiles' = FileSet(projectFiles)
            /\ isEditorDirty' = FALSE
            /\ manualPc' = "saved"
       ELSE /\ manualPc' = "failed"
            /\ UNCHANGED <<storedFiles, isEditorDirty>>
  /\ UNCHANGED <<script, pc, runVars, projectFiles, projectForAI, chatVars, selectedFilePath,
                 editorContent, isLoading, storedMeta, saveVars, startVars>>
  /\ UNCHANGED nonManualVars

NextSave ==
  \/ handleSendMessage
  \/ AgentResponse
  \/ SaveEnsureBaseDir
  \/ SaveWriteMeta
  \/ SaveCleanDir
  \/ SaveMkdir
  \/ SaveWriteFile
  \/ SaveReturn
  \/ handleSaveFileManual
  \/ ManualSaveSettles

SpecSave == InitAgent /\ [][NextSave]_vars

\* C23: the operations a run returns are applied to the latest file
\* collection: a file saved from the editor while the run was in flight still
\* holds the saved content after the run has committed operations that touch
\* other paths only.
C23_CommitKeepsManualSave ==
  ( /\ wfResult # <<>>
    /\ manualPc = "saved"
    /\ selectedFilePath # NULL
    /\ \A i \in 1..Len(wfResult[1].operations) :
         wfResult[1].operations[i].path # selectedFilePath )
  => \E i \in 1..Len(projectFiles) : projectFiles[i] = File(selectedFilePath, editorContent)

\* C28: the step that commits the batch of a run leaves the editor in
\* agreement with the committed collection for the path that was selected:
\* when the batch removed that file the selection is cleared, otherwise the
\* editor shows the file's committed content and is not dirty.  The editor
\* is taken to hold no unsaved edit when the batch arrives.
C28_EditorAgreesWithCommit ==
  [][ (wfResult = <<>> /\ wfResult' # <<>> /\ selectedFilePath # NULL /\ ~isEditorDirty)
      => IF ~FileExists(projectFiles', selectedFilePath)
         THEN selectedFilePath' = NULL
         ELSE /\ selectedFilePath' = selectedFilePath
              /\ File(selectedFilePath, editorContent') \in FileSet(projectFiles')
              /\ ~isEditorDirty'
    ]_vars

\* C29: every run that sets the loading flag clears it again, on success and
\* on every failure path, provided every pending transport and persistence
\* call eventually settles.
C29_LoadingEventuallyCleared == isLoading ~> ~isLoading

\* a run that set the flag, failed, and left the flag cleared
C29_Witness ==
  /\ pc = "done"
  /\ nRequests > 0
  /\ wfError # <<>>
  /\ ~isLoading

\* ------------------------------------------------------------------------
\* Properties of the agent loop
\* ------------------------------------------------------------------------
HasApplyCall(answer) ==
  \E i \in 1..Len(answer.tool_calls) : answer.tool_calls[i].name = "apply_project_changes"

\* plain conversational content: an answer with content and no tool call
PlainContent(answer) == ~answer.fail /\ answer.tool_calls = <<>> /\ answer.content # ""

\* the workflow run has been started and its latest request has been answered
Answered == nRequests > 0 /\ pc # "awaiting" /\ loopCount <= MaxSteps

\* C1: a result is returned only in a turn whose answer requests
\* apply_project_changes, and its explanation and operations are the arguments
\* of such a call of that turn; turns of think/read_file alone return nothing.
C1_ResultOnlyFromFinalCall ==
  wfResult # <<>> =>
    /\ Answered
    /\ LET calls == ScriptAt(loopCount).tool_calls
       IN \E i \in 1..Len(calls) :
            /\ calls[i].name = "apply_project_changes"
            /\ wfResult[1].explanation = calls[i].arguments.explanation
            /\ wfResult[1].operations = calls[i].arguments.operations
    /\ conversationHistory[Len(conversationHistory)].role = "assistant"

C1_Witness ==
  /\ wfResult # <<>>
  /\ loopCount = 2
  /\ Len(wfResult[1].operations) = 2
  /\ thoughts # <<>>

\* a think call with a thought, then a well-formed apply_project_changes
ThinkThenApply ==
  /\ Len(script) = 2
  /\ ~script[1].fail /\ Len(script[1].tool_calls) = 1
  /\ script[1].tool_calls[1].name = "think"
  /\ script[1].tool_calls[1].arguments.ok
  /\ script[1].tool_calls[1].arguments.thought # ""
  /\ ~script[2].fail /\ Len(script[2].tool_calls) = 1
  /\ script[2].tool_calls[1].name = "apply_project_changes"
  /\ script[2].tool_calls[1].arguments.ok
  /\ script[2].tool_calls[1].arguments.explanation # ""
  /\ script[2].tool_calls[1].arguments.opsIsArray

\* C2: with a transport scripted to answer think on turn 1 and
\* apply_project_changes on turn 2, the run issues exactly 2 requests, reports
\* exactly one thought and returns the arguments of the terminal call.
C2_ThinkThenApply ==
  (ThinkThenApply /\ nRequests > 0) =>
    /\ nRequests <= 2
    /\ Len(thoughts) <= 1
    /\ (pc = "awaiting" /\ nRequests = 2) => Len(thoughts) = 1
    /\ pc # "awaiting" =>
         /\ nRequests = 2
         /\ thoughts = << <<"think", script[1].tool_calls[1].arguments.thought>> >>
         /\ wfResult = << [explanation |-> script[2].tool_calls[1].arguments.explanation,
                           operations |-> script[2].tool_calls[1].arguments.operations] >>
         /\ wfError \in {<<>>, ErrStore}

C2_Witness ==
  /\ ThinkThenApply
  /\ pc = "done"
  /\ wfResult # <<>>
  /\ nRequests = 2
  /\ Len(thoughts) = 1

\* no answer of the script fails, requests apply_project_changes or is plain content
NeverFinishes ==
  \A k \in 1..Len(script) :
    ~script[k].fail /\ ~HasApplyCall(script[k]) /\ ~PlainContent(script[k])

C3_Bounded ==
  /\ nRequests <= MaxSteps
  /\ (NeverFinishes /\ pc = "done" /\ nRequests > 0) =>
       wfError = ErrExhausted /\ wfResult = <<>> /\ nRequests = MaxSteps

\* C3: when the transport never requests apply_project_changes and never
\* answers with plain content, the run ends with the exceeded-maximum-steps
\* failure after 20 requests; no run issues a 21st request or loops forever.
C3_Exhaustion ==
  /\ []C3_Bounded
  /\ [](NeverFinishes /\ nRequests > 0 => <>(pc = "done" /\ wfError = ErrExhausted))

C3_Witness ==
  /\ NeverFinishes
  /\ pc = "done"
  /\ wfError = ErrExhausted
  /\ nRequests = MaxSteps
  /\ Len(thoughts) >= MaxSteps

\* C4: a turn answered with plain content and no tool call ends the run with
\* AIConversationalError carrying that content: no result, no later request.
C4_Conversational ==
  [][ /\ (pc = "awaiting" /\ PlainContent(ScriptAt(loopCount))) =>
           /\ pc' = "done"
           /\ wfError' = <<"AIConversationalError", "The AI responded conversationally: ",
                           ScriptAt(loopCount).content>>
           /\ wfResult' = <<>>
           /\ nRequests' = nRequests
           /\ projectFiles' = projectFiles
      /\ (wfError # <<>> /\ wfError[1] = "AIConversationalError") =>
           nRequests' = nRequests /\ wfResult' = <<>>
    ]_vars

C4_Witness ==
  /\ pc = "done"
  /\ wfError # <<>>
  /\ wfError[1] = "AIConversationalError"
  /\ wfError[3] = "Sorry"
  /\ nRequests = 2
  /\ wfResult = <<>>

\* C5: a read_file call with a non-empty paths array, known or unknown paths
\* alike, does not end the run: the loop goes on to its next turn, and the
\* tool message pushed for that call lists, in the order requested, the content
\* of each known path and a "File not found" entry for each unknown one.
C5_ReadFileNotFound ==
  [][ \A i \in 1..Len(ScriptAt(loopCount).tool_calls) :
        LET answer == ScriptAt(loopCount)
            call == answer.tool_calls[i]
            paths == call.arguments.paths
            known(p) == \E f \in FileSet(projectForAI) : f.path = p
            entry(p) == IF known(p)
                        THEN <<"content", p,
                               (CHOOSE f \in FileSet(projectForAI) : f.path = p).content>>
                        ELSE <<"not_found", p>>
            expected == [role |-> "tool",
                         content |-> <<"read_file", [k \in 1..Len(paths) |-> entry(paths[k])]>>,
                         tool_calls |-> <<>>,
                         tool_call_id |-> <<loopCount, i>>]
        IN ( /\ pc = "awaiting"
             /\ ~answer.fail
             /\ ~HasApplyCall(answer)
             /\ call.name = "read_file"
             /\ call.arguments.ok /\ call.arguments.pathsIsArray /\ paths # <<>> )
           => /\ \/ pc' = "awaiting" /\ nRequests' = nRequests + 1 /\ wfError' = <<>>
                 \/ loopCount = MaxSteps /\ wfError' = ErrExhausted
              /\ \E m \in (Len(conversationHistory) + 2)..Len(conversationHistory') :
                   conversationHistory'[m] = expected
              /\ \A m \in 1..Len(conversationHistory) :
                   conversationHistory'[m] = conversationHistory[m]
    ]_vars

\* a read of an unknown and a known path has been answered and the run goes on
C5_Witness ==
  /\ pc = "awaiting"
  /\ loopCount = 2
  /\ conversationHistory[Len(conversationHistory)].role = "tool"
  /\ conversationHistory[Len(conversationHistory)].content =
       <<"read_file", << <<"not_found", "zz">>, <<"content", "a", "x">> >> >>

\* C21: a turn that requests apply_project_changes together with other tool
\* calls ends the run in that turn and executes none of the other calls: no
\* thought is reported, no file is read, and nothing but the assistant
\* message of the turn is appended to the conversation.
C21_TerminalCallPreempts ==
  [][ ( /\ pc = "awaiting"
        /\ ~ScriptAt(loopCount).fail
        /\ HasApplyCall(ScriptAt(loopCount))
        /\ Len(ScriptAt(loopCount).tool_calls) > 1 )
      => /\ pc' # "awaiting"
         /\ nRequests' = nRequests
         /\ loopCount' = loopCount
         /\ thoughts' = thoughts
         /\ Len(conversationHistory') = Len(conversationHistory) + 1
         /\ conversationHistory'[Len(conversationHistory')].role = "assistant"
         /\ \A m \in 1..Len(conversationHistory) :
              conversationHistory'[m] = conversationHistory[m]
    ]_vars

\* think and apply_project_changes in one first turn: the run has returned the
\* batch and no thought was reported
C21_Witness ==
  /\ loopCount = 1
  /\ ScriptAt(1).tool_calls = <<Think("t1"), Apply("e1", OpsUpdateA)>>
  /\ wfResult = <<[explanation |-> "e1", operations |-> OpsUpdateA]>>
  /\ thoughts = <<>>
  /\ Len(conversationHistory) = 3
  /\ pc = "done"

\* C22: in every turn without apply_project_changes, the conversation grows
\* by the assistant message of the turn followed by exactly one tool message
\* per requested call, carrying the id of that call, in call order, before the
\* next request is issued; what the conversation held before stays as it was.
C22_OneToolResultPerCall ==
  [][ LET answer == ScriptAt(loopCount)
          n == Len(answer.tool_calls)
          base == Len(conversationHistory)
      IN ( /\ pc = "awaiting"
           /\ ~answer.fail
           /\ ~HasApplyCall(answer)
           /\ n > 0 )
         => /\ Len(conversationHistory') = base + 1 + n
            /\ conversationHistory'[base + 1].role = "assistant"
            /\ \A i \in 1..n :
                 /\ conversationHistory'[base + 1 + i].role = "tool"
                 /\ conversationHistory'[base + 1 + i].tool_call_id = <<loopCount, i>>
            /\ \A m \in 1..base : conversationHistory'[m] = conversationHistory[m]
    ]_vars

\* every answer of the script is one think call with the thought "t1"
OnlyThinks ==
  \A k \in 1..Len(script) : script[k] = Calls(<<Think("t1")>>)

C24_TraceAtExhaustion ==
  (OnlyThinks /\ pc = "done" /\ nRequests > 0) =>
    /\ wfError = ErrExhausted
    /\ thoughts = [k \in 1..MaxSteps |-> <<"think", "t1">>]
    /\ assistantContent = <<"Sorry, an error occurred: ",
                            "AI agent exceeded maximum steps without finishing.">>

\* C24: when a run fails, the thoughts reported so far stay attached, in
\* order, to the assistant message of the run, and the message shows the
\* error text: the failure handler neither clears nor truncates the trace.
\* In particular a run of think calls that exhausts its turns ends with all
\* its thoughts and the exhaustion message.
C24_FailureKeepsThoughts ==
  /\ []C24_TraceAtExhaustion
  /\ [][ (pc' = "done" /\ wfError' # <<>> /\ wfError'[1] # "Unhandled" /\ wfError # wfError')
         => /\ Len(thoughts') >= Len(thoughts)
            /\ SubSeq(thoughts', 1, Len(thoughts)) = thoughts
            /\ assistantContent' = <<"Sorry, an error occurred: ">> \o Tail(wfError')
       ]_vars

\* a read and a think were reported, then the transport failed
C24_Witness ==
  /\ pc = "done"
  /\ wfError = ErrTransport
  /\ loopCount = 2
  /\ thoughts = << <<"think", "t2">>, <<"reading", <<"b", "zz">>>>, <<"missing", "zz">> >>
  /\ assistantContent = <<"Sorry, an error occurred: ", "transport">>

\* an operation the tool schema does not allow
BadOperation(op) ==
  \/ op.operation \notin {"CREATE", "UPDATE", "DELETE"}
  \/ op.path = ""
  \/ op.operation \in {"CREATE", "UPDATE"} /\ ~op.hasContent

\* the answered turn holds an apply_project_changes call whose batch has a bad operation
BadBatchAnswered ==
  /\ Answered
  /\ LET calls == ScriptAt(loopCount).tool_calls
     IN \E i \in 1..Len(calls) :
          /\ calls[i].name = "apply_project_changes"
          /\ calls[i].arguments.ok /\ calls[i].arguments.opsIsArray
          /\ \E k \in 1..Len(calls[i].arguments.operations) :
               BadOperation(calls[i].arguments.operations[k])

\* C6: a batch with a bad operation (kind outside CREATE/UPDATE/DELETE, empty
\* path, CREATE/UPDATE without content) is rejected as a whole: the run
\* fails and neither project.files nor the stored files change.
C6_AtomicBatch ==
  BadBatchAnswered =>
    /\ wfResult = <<>>
    /\ wfError # <<>>
    /\ projectFiles = startFiles
    /\ storedFiles = startStored

\* C7: a run that fails at any step leaves project.files and the stored
\* files as they were when the run started.
C7_FailureLeavesFiles ==
  (pc = "done" /\ nRequests > 0 /\ wfError # <<>>) =>
    /\ projectFiles = startFiles
    /\ storedFiles = startStored

\* ------------------------------------------------------------------------
\* Text: a string is a sequence of characters; a word that holds no blank,
\* "-" or "#" (a section name, "Hello") is written as one element
\* ------------------------------------------------------------------------
IsSpace(c) == c \in {" ", "\n"}

RECURSIVE TrimStart(_)
TrimStart(s) == IF s # <<>> /\ IsSpace(Head(s)) THEN TrimStart(Tail(s)) ELSE s

RECURSIVE TrimEnd(_)
TrimEnd(s) ==
  IF s # <<>> /\ IsSpace(s[Len(s)]) THEN TrimEnd(SubSeq(s, 1, Len(s) - 1)) ELSE s

Trim(s) == TrimEnd(TrimStart(s))

\* s has pat at position i (from 1)
HasAt(s, pat, i) == i >= 1 /\ i + Len(pat) - 1 <= Len(s) /\ SubSeq(s, i, i + Len(pat) - 1) = pat

Min(S) == CHOOSE x \in S : \A y \in S : x <= y

\* s.indexOf(pat): from 0, -1 when absent
IndexOf(s, pat) ==
  LET at == {i \in 1..Len(s) : HasAt(s, pat, i)}
  IN IF at = {} THEN -1 ELSE Min(at) - 1

\* s.substring(from) and s.substring(from, to), indices from 0
SubstringFrom(s, from) == SubSeq(s, from + 1, Len(s))
Substring(s, from, to) == SubSeq(s, from + 1, to)

\* s.split('\n')
RECURSIVE SplitLines(_)
SplitLines(s) ==
  LET nl == IndexOf(s, <<"\n">>)
  IN IF nl = -1 THEN <<s>>
     ELSE <<Substring(s, 0, nl)>> \o SplitLines(SubstringFrom(s, nl + 1))

\* ------------------------------------------------------------------------
\* streamAIAgentResponse: the incremental parser of the delimited-text stream
\* ------------------------------------------------------------------------
MaxParts == 2     \* fragments one response is cut into
MaxBody == 3      \* characters in a generated file body

Terminator == <<"-", "#">>
HeaderClose == <<"-", "-", "\n">>

\* buffer.match(/^--\s*([\s\S]+?)\s*--\n/): <<>> when there is no match, else
\* <<[name |-> match[1], length |-> match[0].length]>>
HeaderMatch(buf) ==
  LET n == Len(buf)
      \* the greedy \s* after the opening "--" stops here
      capStart == Min({i \in 3..(n + 1) : i = n + 1 \/ ~IsSpace(buf[i])})
      closes == {e \in 1..n : HasAt(buf, HeaderClose, e)}
      after == {e \in closes : e > capStart}
      e1 == Min(after)
      \* the lazy group stops before the blanks that run up to the closing "--"
      r == Min({j \in (capStart + 1)..e1 : \A k \in j..(e1 - 1) : IsSpace(buf[k])})
  IN IF ~HasAt(buf, <<"-", "-">>, 1) THEN <<>>
     ELSE IF after # {}
       THEN <<[name |-> SubSeq(buf, capStart, r - 1), length |-> e1 + 2]>>
     ELSE IF capStart > 3 /\ capStart \in closes
       \* only blanks between the dashes: \s* gives one back to the group
       THEN <<[name |-> SubSeq(buf, capStart - 1, capStart - 1), length |-> capStart + 2]>>
     ELSE <<>>

Chunk(type, content, path) == [type |-> type, content |-> content, path |-> path]

\* content.split('\n').filter(t => t.trim()), each yielded trimmed
RECURSIVE ThoughtChunks(_)
ThoughtChunks(lines) ==
  IF lines = <<>> THEN <<>>
  ELSE (IF Trim(Head(lines)) # <<>>
          THEN <<Chunk("thought", Trim(Head(lines)), <<>>)>> ELSE <<>>)
       \o ThoughtChunks(Tail(lines))

SectionContent_untrimmed(buf, endMatchIndex) == Substring(buf, 0, endMatchIndex)

SectionContent(buf, endMatchIndex) == Trim(Substring(buf, 0, endMatchIndex))

\* what a closed section yields; a null path and an empty one are both falsy
SectionChunks(section, path, content) ==
  CASE section = "rencana" -> ThoughtChunks(SplitLines(content))
    [] section = "penjelasan" -> <<Chunk("explanation", content, <<>>)>>
    [] section = "file" /\ path # <<>> -> <<Chunk("file", content, path)>>
    [] OTHER -> <<>>

\* the while (changedInLoop) loop on one fragment: state is the buffer, the
\* open section, its path and the chunks yielded so far
RECURSIVE StreamLoop(_, _, _, _)
StreamLoop(buf, section, path, out) ==
  LET match == IF section = NULL THEN HeaderMatch(buf) ELSE <<>>
      sectionName == Trim(match[1].name)
      section1 == IF match = <<>> THEN section
                  ELSE IF sectionName \in {<<"rencana">>, <<"penjelasan">>}
                    THEN sectionName[1] ELSE "file"
      path1 == IF match = <<>> \/ section1 # "file" THEN path ELSE sectionName
      buf1 == IF match = <<>> THEN buf ELSE SubstringFrom(buf, match[1].length)
      endMatchIndex == IF section1 = NULL THEN -1 ELSE IndexOf(buf1, Terminator)
      content == SectionContent(buf1, endMatchIndex)
  IN IF endMatchIndex # -1
       THEN StreamLoop(TrimStart(SubstringFrom(buf1, endMatchIndex + 2)), NULL, <<>>,
                       out \o SectionChunks(section1, path1, content))
     ELSE IF match # <<>>
       THEN StreamLoop(buf1, section1, path1, out)
     ELSE [buffer |-> buf1, currentSection |-> section1, currentFilePath |-> path1,
           chunks |-> out]

\* ---- responses the model streams, and the ways to cut them ----------------
Header(name) == <<"-", "-", " ">> \o name \o <<" ", "-", "-", "\n">>

\* a section as the prompt lays it out: header line, body, terminator line
Section(name, body) == Header(name) \o body \o <<"\n">> \o Terminator \o <<"\n">>

\* the explanation section followed, after a blank line, by one file section
Serialize(explanation, path, content) ==
  Section(<<"penjelasan">>, explanation) \o <<"\n">> \o Section(path, content)

BodyChars == {"a", "-", "#"}

\* file bodies: every short one-line body, and three with blanks and newlines
Bodies ==
  UNION {[1..n -> BodyChars] : n \in 0..MaxBody}
    \cup {<<" ", "a">>, <<"a", "\n", "b">>, <<"a", "\n", "-", "#", "b">>}

\* every line of the body differs from the terminator
NoTerminatorLine(body) == \A i \in 1..Len(SplitLines(body)) : SplitLines(body)[i] # Terminator

HelloFragments == << Header(<<"penjelasan">>) \o <<"Hello">>,
                     <<" ", "world", "\n">> \o Terminator >>

HelloFragmentsDoubleDash == << Header(<<"penjelasan">>) \o <<"Hello">>,
                               <<" ", "world", "\n", "-">> \o Terminator >>

PlanText == Section(<<"rencana">>, <<"a", "\n", "\n", " ", "b", " ">>)

\* closed sections, each followed by the blank line the prompt puts before
\* the next header
RECURSIVE Sections(_)
Sections(closed) ==
  IF closed = <<>> THEN <<>>
  ELSE Section(closed[1].name, closed[1].body) \o <<"\n">> \o Sections(Tail(closed))

Sec(name, body) == [name |-> name, body |-> body]

\* responses cut off by the end of the stream: some closed sections, then a
\* header and a body whose terminator never arrives
Truncations ==
  { [closed |-> <<>>, open |-> Sec(<<"penjelasan">>, <<"Hello">>)],
    [closed |-> <<>>, open |-> Sec(<<"rencana">>, <<"a", "\n", "b">>)],
    [closed |-> <<Sec(<<"penjelasan">>, <<"E">>)>>, open |-> Sec(<<"x.js">>, <<"a">>)],
    [closed |-> <<Sec(<<"penjelasan">>, <<"E">>)>>, open |-> Sec(<<"x.js">>, <<"a", "\n", "-">>)],
    [closed |-> <<Sec(<<"penjelasan">>, <<"E">>), Sec(<<"x.js">>, <<"a">>)>>,
     open |-> Sec(<<"y.js">>, <<"b">>)] }

TruncatedText(t) == Sections(t.closed) \o Header(t.open.name) \o t.open.body

StreamTexts ==
  {HelloFragments[1] \o HelloFragments[2],
   HelloFragmentsDoubleDash[1] \o HelloFragmentsDoubleDash[2],
   PlanText}
    \cup {Serialize(<<"E">>, <<"x.js">>, body) : body \in Bodies}
    \cup {TruncatedText(t) : t \in Truncations}

InitStream ==
  /\ text \in StreamTexts
  /\ rest = text
  /\ parts = <<>>
  /\ buffer = <<>>
  /\ currentSection = NULL
  /\ currentFilePath = <<>>
  /\ chunks = <<>>
  /\ streamPc = "open"
  \* the editor is idle and no response is being parsed
  /\ script = <<Answer(<<>>, "ok")>>
  /\ pc = "idle" /\ loopCount = 0 /\ conversationHistory = <<>> /\ nRequests = 0
  /\ wfResult = <<>> /\ wfError = <<>>
  /\ projectFiles = <<>> /\ projectForAI = <<>>
  /\ thoughts = <<>> /\ assistantContent = <<>>
  /\ selectedFilePath = NULL /\ editorContent = "" /\ isEditorDirty = FALSE
  /\ isLoading = FALSE
  /\ storedFiles = <<>> /\ storedMeta = <<>>
  /\ saveArg = <<>> /\ saveIdx = 0 /\ saveCont = "none"
  /\ startFiles = <<>> /\ startStored = <<>>
  /\ response = <<>> /\ parsed = <<>>
  /\ streamed = <<>> /\ responseBuffer = <<>>
  /\ heap = <<>> /\ filesRef = 0 /\ argRef = 0 /\ applied = <<>> /\ before = <<>>
  /\ outcome = "none" /\ variant = "none"
  /\ manualPc = "none"
  /\ jsonBlobIdPromise = 0 /\ promises = <<>> /\ storedId = <<>> /\ callers = <<>>
  /\ createRequests = 0 /\ established = <<>>

\* one iteration of for await (const part of responseStream): the transport
\* cuts the text where it likes, into at most MaxParts fragments.  A part
\* without text is skipped by the loop and changes nothing.
StreamPart ==
  /\ streamPc = "open"
  /\ rest # <<>>
  /\ \E n \in 1..Len(rest) :
       /\ Len(parts) + 1 = MaxParts => n = Len(rest)
       /\ LET part == SubSeq(rest, 1, n)
              after == StreamLoop(buffer \o part, currentSection, currentFilePath, chunks)
          IN /\ buffer' = after.buffer
             /\ currentSection' = after.currentSection
             /\ currentFilePath' = after.currentFilePath
             /\ chunks' = after.chunks
             /\ rest' = SubSeq(rest, n + 1, Len(rest))
             /\ parts' = Append(parts, part)
  /\ UNCHANGED <<text, streamPc>>
  /\ UNCHANGED nonStreamVars

\* the stream is exhausted: the generator returns, the buffer is dropped
StreamEnd ==
  /\ streamPc = "open"
  /\ rest = <<>>
  /\ streamPc' = "ended"
  /\ UNCHANGED <<text, rest, parts, buffer, currentSection, currentFilePath, chunks>>
  /\ UNCHANGED nonStreamVars

\* yield { type: 'error', content: `AI stream failed: ${errorMessage}` }
ErrorChunk == Chunk("error", <<"AI stream failed: ", "msg">>, <<>>)

\* puter.ai.chat or the iteration rejects: the catch yields one error chunk
StreamFail ==
  /\ streamPc = "open"
  /\ chunks' = Append(chunks, ErrorChunk)
  /\ streamPc' = "failed"
  /\ UNCHANGED <<text, rest, parts, buffer, currentSection, currentFilePath>>
  /\ UNCHANGED nonStreamVars

NextStream == StreamPart \/ StreamEnd \/ StreamFail

SpecStream == InitStream /\ [][NextStream]_vars

\* ---- claims about the streaming parser ------------------------------------
HelloWorld == <<"Hello", " ", "world">>

\* the stream has delivered exactly these fragments and has not failed
Fed(fragments) == parts = fragments /\ streamPc # "failed"

C9_RoundTrip ==
  \A body \in Bodies :
    (/\ NoTerminatorLine(body)
     /\ text = Serialize(<<"E">>, <<"x.js">>, body)
     /\ Len(parts) = 1
     /\ streamPc = "ended")
    => chunks = << Chunk("explanation", <<"E">>, <<>>),
                   Chunk("file", body, <<"x.js">>) >>

\* the events of a list of closed sections: one explanation event for
\* penjelasan, one file event for any other name
RECURSIVE ClosedEvents(_)
ClosedEvents(closed) ==
  IF closed = <<>> THEN <<>>
  ELSE <<IF closed[1].name = <<"penjelasan">>
           THEN Chunk("explanation", closed[1].body, <<>>)
           ELSE Chunk("file", closed[1].body, closed[1].name)>>
       \o ClosedEvents(Tail(closed))

\* C12: when the stream ends while a section is open (header seen, no
\* terminator), no event is emitted for that section: the emitted events are
\* exactly those of the sections whose terminator arrived before the end.
C12_OpenSectionDiscarded ==
  \A t \in Truncations :
    (text = TruncatedText(t) /\ streamPc = "ended")
      => chunks = ClosedEvents(t.closed)

\* C27: however the response text is cut into fragments, the events emitted
\* by the end of the stream are those emitted when the whole text arrives as
\* a single fragment.
C27_FragmentationInsensitive ==
  streamPc = "ended" => chunks = StreamLoop(text, NULL, <<>>, <<>>).chunks

\* the text delivered so far
Delivered == SubSeq(text, 1, Len(text) - Len(rest))

\* C30: when the transport fails before or during streaming, the generator
\* ends with exactly one error chunk, which comes last, after the chunks of
\* every section whose terminator was delivered before the failure.
C30_FailureYieldsOneErrorChunk ==
  streamPc = "failed"
    => chunks = StreamLoop(Delivered, NULL, <<>>, <<>>).chunks \o <<ErrorChunk>>

\* ------------------------------------------------------------------------
\* parseOperationsResponse: the parser of the plain-text operation blocks.
\* A key with its colon ("path:"), a word, a markdown fence is one
\* element of the text; blanks, newlines and dashes are single characters.
\* ------------------------------------------------------------------------
MaxWords == 3     \* elements in a generated free-text response

\* the three backquotes that open or close a markdown code block
Fence == "[fence]"

\* toLowerCase / the i flag, on the elements the inputs use
LowerCase(tok) == IF tok = "Path:" THEN "path:" ELSE tok

\* response.replace of a fence and the txt, text or json tag that may follow it
RECURSIVE StripFences(_)
StripFences(s) ==
  IF s = <<>> THEN <<>>
  ELSE IF Head(s) = Fence
    THEN IF Len(s) >= 2 /\ s[2] \in {"txt", "text", "json"}
           THEN StripFences(SubSeq(s, 3, Len(s)))
           ELSE StripFences(Tail(s))
  ELSE <<Head(s)>> \o StripFences(Tail(s))

CleanResponse(s) == Trim(StripFences(s))

\* /operation:|path:|reasoning:/i.test(txtResponse)
IsStructuredResponse(txt) ==
  \E i \in 1..Len(txt) : LowerCase(txt[i]) \in {"operation:", "path:", "reasoning:"}

RECURSIVE JoinLines(_)
JoinLines(lines) ==
  IF lines = <<>> THEN <<>>
  ELSE IF Len(lines) = 1 THEN lines[1]
  ELSE lines[1] \o <<"\n">> \o JoinLines(Tail(lines))

\* a line /^\s*--\s*$/m matches
IsSeparatorLine(line) == Trim(line) = <<"-", "-">>

\* txtResponse.split(/^\s*--\s*$/m), each block then trimmed: the blanks the
\* pattern takes beyond its own line are blanks the trim removes anyway
RECURSIVE SplitBlocks(_, _)
SplitBlocks(lines, cur) ==
  IF lines = <<>> THEN <<Trim(JoinLines(cur))>>
  ELSE IF IsSeparatorLine(Head(lines))
    THEN <<Trim(JoinLines(cur))>> \o SplitBlocks(Tail(lines), <<>>)
  ELSE SplitBlocks(Tail(lines), Append(cur, Head(lines)))

\* line.match(/^([a-zA-Z]+):\s?(.*)$/): the line starts with a key
KeyTokens == {"operation:", "path:", "reasoning:", "content:", "note:"}

LineMatches(line) == line # <<>> /\ LowerCase(line[1]) \in KeyTokens

LineValue(line) ==
  IF Len(line) >= 2 /\ IsSpace(line[2]) THEN SubSeq(line, 3, Len(line)) ELSE Tail(line)

\* the operation being assembled from a block; "" and <<>> stand for undefined
EmptyOp == [operation |-> "", path |-> <<>>, reasoning |-> <<>>, contentLines |-> <<>>,
            isContentSection |-> FALSE, invalid |-> <<>>]

\* the body of for (const line of lines); invalid records the value of a
\* rejected operation: line, at which the loop is left by the throw
ParseLine(op, line) ==
  IF op.invalid # <<>> THEN op
  ELSE IF op.isContentSection
    THEN [op EXCEPT !.contentLines = Append(@, line)]
  ELSE IF ~LineMatches(line) THEN op
  ELSE LET key == LowerCase(line[1])
           value == LineValue(line)
       IN CASE key = "operation:" ->
                 IF value \in {<<"CREATE">>, <<"UPDATE">>, <<"DELETE">>}
                   THEN [op EXCEPT !.operation = value[1]]
                   ELSE [op EXCEPT !.invalid = <<value>>]
            [] key = "path:" -> [op EXCEPT !.path = value]
            [] key = "reasoning:" -> [op EXCEPT !.reasoning = value]
            [] key = "content:" -> [op EXCEPT !.isContentSection = TRUE]
            [] OTHER -> op

RECURSIVE ParseLines(_, _)
ParseLines(op, lines) ==
  IF lines = <<>> THEN op ELSE ParseLines(ParseLine(op, Head(lines)), Tail(lines))

\* a FileOperation the parser produces
ParsedOp(op) ==
  [operation |-> op.operation, path |-> op.path, reasoning |-> op.reasoning,
   content |-> IF op.operation \in {"CREATE", "UPDATE"} THEN JoinLines(op.contentLines) ELSE <<>>,
   hasContent |-> op.operation \in {"CREATE", "UPDATE"}]

\* what the call produces: a returned list, or a thrown error with its message
Returned(ops) == [kind |-> "returned", operations |-> ops, message |-> <<>>]
Thrown(kind, message) == [kind |-> kind, operations |-> <<>>, message |-> message]

ErrNotString == <<"Respons AI bukan string.">>
ErrInvalidKind(index, value) ==
  <<"Jenis operasi tidak valid pada blok ", ToString(index), ": ">> \o value
ErrIncomplete(index) == <<"Operasi tidak lengkap pada blok ", ToString(index)>>
ErrParse(detail) == <<"Gagal mengurai respons teks AI: ">> \o detail

\* operationBlocks.forEach((block, index) => ...), left at the first throw
RECURSIVE ParseBlocks(_, _, _)
ParseBlocks(blocks, index, operations) ==
  IF blocks = <<>> THEN Returned(operations)
  ELSE IF Head(blocks) = <<>> THEN ParseBlocks(Tail(blocks), index + 1, operations)
  ELSE LET op == ParseLines(EmptyOp, SplitLines(Head(blocks)))
       IN IF op.invalid # <<>>
            THEN Thrown("Error", ErrParse(ErrInvalidKind(index, op.invalid[1])))
          ELSE IF op.operation = "" \/ op.path = <<>> \/ op.reasoning = <<>>
            THEN Thrown("Error", ErrParse(ErrIncomplete(index)))
          ELSE ParseBlocks(Tail(blocks), index + 1, Append(operations, ParsedOp(op)))

parseOperationsResponse(r) ==
  IF ~r.isString THEN Thrown("Error", ErrNotString)
  ELSE LET txtResponse == CleanResponse(r.text)
       IN IF txtResponse = <<>> THEN Returned(<<>>)
          ELSE IF ~IsStructuredResponse(txtResponse)
            THEN Thrown("AIConversationalError", txtResponse)
          ELSE ParseBlocks(SplitBlocks(SplitLines(txtResponse), <<>>), 0, <<>>)

\* ---- responses handed to the parser ---------------------------------------
String(s) == [isString |-> TRUE, text |-> s]
NotAString == [isString |-> FALSE, text |-> <<>>]

FreeTextChars == {"Sorry", "path:", " ", "\n", Fence}

FreeTexts == UNION {[1..n -> FreeTextChars] : n \in 0..MaxWords}

SorryText == <<"Sorry,", " ", "I", " ", "can't", " ", "help", " ", "with", " ", "that.">>

\* a block as the prompt lays it out
BlockHeader(kind, path, why) ==
  <<"operation:", " ", kind, "\n", "path:", " ", path, "\n", "reasoning:", " ", why>>
Block(kind, path, why, content) ==
  BlockHeader(kind, path, why) \o <<"\n", "content:", "\n">> \o content
SeparatorLine == <<"\n", "-", "-", "\n">>

StructuredTexts ==
  { Block("CREATE", "x.js", "why", <<"a", "\n", "b">>),
    Block("UPDATE", "x.js", "why", <<>>),
    BlockHeader("DELETE", "x.js", "why"),
    Block("RENAME", "x.js", "why", <<"a">>),
    Block("UPDATE", "x.js", "why", <<"a">>) \o SeparatorLine \o BlockHeader("DELETE", "y.js", "why"),
    BlockHeader("DELETE", "x.js", "why") \o SeparatorLine \o <<"operation:", " ", "DELETE">>,
    <<Fence, "txt", "\n">> \o Block("CREATE", "x.js", "why", <<"a">>) \o <<"\n", Fence>>,
    <<"operation:", " ", "CREATE", "\n", "Path:", "x.js", "\n", "note:", " ", "n", "\n",
      "reasoning:", " ", "why", "\n", "content:", " ", "dropped", "\n", "a">>,
    <<"Sorry", "\n">> \o BlockHeader("DELETE", "x.js", "why"),
    <<" ", "-", "-", " ", "\n">> \o BlockHeader("DELETE", "x.js", "why") }

Responses ==
  {NotAString} \cup {String(t) : t \in FreeTexts \cup {SorryText} \cup StructuredTexts}

InitParse ==
  /\ response \in Responses
  /\ parsed = <<>>
  \* the editor is idle and no stream is open
  /\ script = <<Answer(<<>>, "ok")>>
  /\ pc = "idle" /\ loopCount = 0 /\ conversationHistory = <<>> /\ nRequests = 0
  /\ wfResult = <<>> /\ wfError = <<>>
  /\ projectFiles = <<>> /\ projectForAI = <<>>
  /\ thoughts = <<>> /\ assistantContent = <<>>
  /\ selectedFilePath = NULL /\ editorContent = "" /\ isEditorDirty = FALSE
  /\ isLoading = FALSE
  /\ storedFiles = <<>> /\ storedMeta = <<>>
  /\ saveArg = <<>> /\ saveIdx = 0 /\ saveCont = "none"
  /\ startFiles = <<>> /\ startStored = <<>>
  /\ text = <<>> /\ rest = <<>> /\ parts = <<>> /\ buffer = <<>>
  /\ currentSection = NULL /\ currentFilePath = <<>> /\ chunks = <<>> /\ streamPc = "off"
  /\ streamed = <<>> /\ responseBuffer = <<>>
  /\ heap = <<>> /\ filesRef = 0 /\ argRef = 0 /\ applied = <<>> /\ before = <<>>
  /\ outcome = "none" /\ variant = "none"
  /\ manualPc = "none"
  /\ jsonBlobIdPromise = 0 /\ promises = <<>> /\ storedId = <<>> /\ callers = <<>>
  /\ createRequests = 0 /\ established = <<>>

\* generateFileOperations hands the answer to the parser
ParseResponse ==
  /\ parsed = <<>>
  /\ parsed' = <<parseOperationsResponse(response)>>
  /\ UNCHANGED response
  /\ UNCHANGED nonParseVars

NextParse == ParseResponse

SpecParse == InitParse /\ [][NextParse]_vars

\* ---- claims about parseOperationsResponse ----------------------------------
\* some line of the text opens a field of an operation block
HasOperationBlock(t) ==
  \E i \in 1..Len(SplitLines(t)) :
    LET line == TrimStart(SplitLines(t)[i])
    IN line # <<>> /\ LowerCase(line[1]) \in {"operation:", "path:", "reasoning:", "content:"}

\* C10: every non-empty response without a recognizable operation block
\* makes the parser throw AIConversationalError carrying exactly the raw
\* text; it is never a generic parse error nor an empty operation list.
C10_ConversationalDetection ==
  (/\ parsed # <<>>
   /\ response.isString
   /\ response.text # <<>>
   /\ ~HasOperationBlock(response.text))
  => parsed[1] = Thrown("AIConversationalError", response.text)

\* ------------------------------------------------------------------------
\* The JSON dialect of the editor (handleSendMessage of ProjectEditor.tsx):
\* the streamed answer is one JSON object { explanation, operations }.
\* In a JSON text a punctuation mark, a blank, a word and a whole string
\* literal (quotes included) are one element each.
\* ------------------------------------------------------------------------
\* the string literals the answers use, with the string each denotes; the
\* literal "{}" holds a pair of braces inside its quotes
StringLiterals ==
  [lit \in {"\"explanation\"", "\"operations\"", "\"operation\"", "\"path\"", "\"content\"",
            "\"e\"", "\"CREATE\"", "\"UPDATE\"", "\"DELETE\"", "\"a\"", "\"c\"", "\"n\"",
            "\"{}\""} |->
     CASE lit = "\"explanation\"" -> "explanation"
       [] lit = "\"operations\"" -> "operations"
       [] lit = "\"operation\"" -> "operation"
       [] lit = "\"path\"" -> "path"
       [] lit = "\"content\"" -> "content"
       [] lit = "\"e\"" -> "e"
       [] lit = "\"CREATE\"" -> "CREATE"
       [] lit = "\"UPDATE\"" -> "UPDATE"
       [] lit = "\"DELETE\"" -> "DELETE"
       [] lit = "\"a\"" -> "a"
       [] lit = "\"c\"" -> "c"
       [] lit = "\"n\"" -> "n"
       [] lit = "\"{}\"" -> "{}"]

\* JSON values: t is "string", "array", "object" or "undefined"; an object
\* keeps its members, in order, as [key, value] records in items
JsonUndefined == [t |-> "undefined", s |-> "", items |-> <<>>]
JsonString(str) == [t |-> "string", s |-> str, items |-> <<>>]
JsonArray(vs) == [t |-> "array", s |-> "", items |-> vs]
JsonObject(ms) == [t |-> "object", s |-> "", items |-> ms]

\* what a parsing step of JSON.parse yields: next is the position after the value
JsonFail == [ok |-> FALSE, value |-> JsonUndefined, next |-> 0]
JsonOk(v, n) == [ok |-> TRUE, value |-> v, next |-> n]

RECURSIVE SkipBlanks(_, _)
SkipBlanks(s, i) == IF i <= Len(s) /\ IsSpace(s[i]) THEN SkipBlanks(s, i + 1) ELSE i

RECURSIVE JsonValue(_, _)
RECURSIVE JsonElements(_, _, _)
RECURSIVE JsonMembers(_, _, _)

\* the elements of an array from position i on, after "[" or after a comma
JsonElements(s, i, items) ==
  LET v == JsonValue(s, i)
      k == SkipBlanks(s, v.next)
  IN IF ~v.ok \/ k > Len(s) THEN JsonFail
     ELSE IF s[k] = "," THEN JsonElements(s, k + 1, Append(items, v.value))
     ELSE IF s[k] = "]" THEN JsonOk(JsonArray(Append(items, v.value)), k + 1)
     ELSE JsonFail

\* the members of an object from position i on, after "{" or after a comma
JsonMembers(s, i, members) ==
  LET j == SkipBlanks(s, i)
      c == SkipBlanks(s, j + 1)
      v == JsonValue(s, c + 1)
      k == SkipBlanks(s, v.next)
  IN IF j > Len(s) \/ s[j] \notin DOMAIN StringLiterals THEN JsonFail
     ELSE IF c > Len(s) \/ s[c] # ":" THEN JsonFail
     ELSE IF ~v.ok \/ k > Len(s) THEN JsonFail
     ELSE LET ms == Append(members, [key |-> StringLiterals[s[j]], value |-> v.value])
          IN IF s[k] = "," THEN JsonMembers(s, k + 1, ms)
             ELSE IF s[k] = "}" THEN JsonOk(JsonObject(ms), k + 1)
             ELSE JsonFail

JsonValue(s, i) ==
  LET j == SkipBlanks(s, i)
      n == SkipBlanks(s, j + 1)
  IN IF j > Len(s) THEN JsonFail
     ELSE IF s[j] \in DOMAIN StringLiterals THEN JsonOk(JsonString(StringLiterals[s[j]]), j + 1)
     ELSE IF s[j] = "["
       THEN IF n <= Len(s) /\ s[n] = "]" THEN JsonOk(JsonArray(<<>>), n + 1)
            ELSE JsonElements(s, j + 1, <<>>)
     ELSE IF s[j] = "{"
       THEN IF n <= Len(s) /\ s[n] = "}" THEN JsonOk(JsonObject(<<>>), n + 1)
            ELSE JsonMembers(s, j + 1, <<>>)
     ELSE JsonFail

\* JSON.parse: one value and nothing but blanks after it, else a SyntaxError
JsonParse(s) ==
  LET v == JsonValue(s, 1)
  IN IF v.ok /\ SkipBlanks(s, v.next) > Len(s) THEN v ELSE JsonFail

\* value.key of the destructuring: the last member with that key, else undefined
JsonField(value, key) ==
  LET at == {i \in 1..Len(value.items) : value.items[i].key = key}
  IN IF value.t # "object" \/ at = {} THEN JsonUndefined
     ELSE value.items[CHOOSE i \in at : \A j \in at : j <= i].value

\* lines 341-348: a leading fence with its json tag and a trailing fence are
\* cut off, in that order, then the text is trimmed
StripJsonFence(buf) ==
  LET s1 == IF Len(buf) >= 2 /\ buf[1] = Fence /\ buf[2] = "json"
              THEN SubSeq(buf, 3, Len(buf)) ELSE buf
      s2 == IF s1 # <<>> /\ s1[Len(s1)] = Fence THEN SubSeq(s1, 1, Len(s1) - 1) ELSE s1
  IN Trim(s2)

UNDEFINED == "<undefined>"

\* a field that holds a string, else undefined
JsonText(value, key) ==
  IF JsonField(value, key).t = "string" THEN JsonField(value, key).s ELSE UNDEFINED

\* an element of operations read as a FileOperation by the destructuring of
\* applyOperation
JsonOperation(item) ==
  [operation |-> JsonText(item, "operation"), path |-> JsonText(item, "path"),
   content |-> IF JsonField(item, "content").t = "string"
                 THEN JsonField(item, "content").s ELSE "",
   hasContent |-> JsonField(item, "content").t # "undefined"]

\* the operations the for loop visits: operations && operations.length > 0
RECURSIVE JsonOperations(_)
JsonOperations(items) ==
  IF items = <<>> THEN <<>> ELSE <<JsonOperation(Head(items))>> \o JsonOperations(Tail(items))

\* lines 361-369 over the batch: the editor follows every operation on the
\* path that was selected when the handler was created
RECURSIVE EditorAfter(_, _, _)
EditorAfter(ops, selected, editor) ==
  IF ops = <<>> THEN editor
  ELSE LET op == Head(ops)
       IN EditorAfter(Tail(ops), selected,
            IF op.path # selected THEN editor
            ELSE IF op.operation = "DELETE"
              THEN [selectedFilePath |-> NULL, editorContent |-> "", isEditorDirty |-> FALSE]
            ELSE [editor EXCEPT !.editorContent = OpContent(op), !.isEditorDirty = FALSE])

ErrEmptyResponse == <<"Error", "AI returned an empty response.">>
ErrSyntax == <<"SyntaxError", "JSON.parse">>

\* ---- the answers the model streams -----------------------------------------
\* the literal that denotes a string
Quote(str) == CHOOSE lit \in DOMAIN StringLiterals : StringLiterals[lit] = str

\* JSON.stringify of a FileOperation; an absent content is left out
OperationJson(op) ==
  <<"{", "\"operation\"", ":", Quote(op.operation), ",", "\"path\"", ":", Quote(op.path)>>
    \o (IF op.hasContent THEN <<",", "\"content\"", ":", " ", Quote(op.content)>> ELSE <<>>)
    \o <<"}">>

RECURSIVE OperationsJson(_)
OperationsJson(ops) ==
  IF ops = <<>> THEN <<>>
  ELSE IF Len(ops) = 1 THEN OperationJson(ops[1])
  ELSE OperationJson(ops[1]) \o <<",", "\n">> \o OperationsJson(Tail(ops))

\* { "explanation": "e", "operations": [ ... ] }
Payload(ops) ==
  <<"{", "\"explanation\"", ":", " ", "\"e\"", ",", "\n", "\"operations\"", ":", " ", "[">>
    \o OperationsJson(ops) \o <<"]", "}">>

CreateBraces == Op("CREATE", "c", "{}")

JsonBatches ==
  { <<>>,
    <<CreateBraces>>,
    <<Op("UPDATE", "a", "n")>>,
    <<OpNoContent("DELETE", "a")>>,
    <<Op("CREATE", "c", "a"), Op("UPDATE", "c", "n")>>,
    <<Op("CREATE", "c", "a"), OpNoContent("DELETE", "c")>>,
    <<Op("UPDATE", "a", "n"), OpNoContent("DELETE", "a"), Op("CREATE", "a", "{}")>> }

JsonPrefixes == { <<>>, <<Fence, "json", "\n">>, <<"Sure!", " ", Fence, "json", "\n">> }
JsonSuffixes == { <<>>, <<"\n", Fence>>, <<"\n", Fence, " ", "thanks">>, <<"\n", Fence, "\n">> }

\* whole payloads with and without fences and chatter, the payload cut short
\* at every place, a bare array, plain chatter and nothing at all
JsonAnswers ==
  {pre \o Payload(b) \o suf : pre \in JsonPrefixes, b \in JsonBatches, suf \in JsonSuffixes}
    \cup {SubSeq(Payload(<<CreateBraces>>), 1, n) : n \in 0..(Len(Payload(<<CreateBraces>>)) - 1)}
    \cup { <<"[">> \o OperationJson(CreateBraces) \o <<"]">>,
           <<"Sorry">>, <<Fence, "json", "\n", Fence>> }

InitJson ==
  /\ streamed \in JsonAnswers
  /\ responseBuffer = <<>>
  /\ pc = "idle"
  /\ projectFiles \in InitialFiles \cup {<<>>}
  /\ projectForAI = projectFiles
  \* the editor holds no unsaved change
  /\ \/ selectedFilePath = NULL /\ editorContent = ""
     \/ /\ projectFiles # <<>>
        /\ selectedFilePath = projectFiles[1].path
        /\ editorContent = projectFiles[1].content
  /\ isEditorDirty = FALSE
  /\ isLoading = FALSE
  /\ thoughts = <<>>
  /\ assistantContent = <<>>
  /\ wfResult = <<>>
  /\ wfError = <<>>
  /\ storedFiles = FileSet(projectFiles)
  /\ storedMeta = <<>>
  /\ saveArg = <<>>
  /\ saveIdx = 0
  /\ saveCont = "none"
  /\ startFiles = projectFiles
  /\ startStored = storedFiles
  \* no agent run, no delimited stream, no text response, no reducer run
  /\ script = <<Answer(<<>>, "ok")>>
  /\ loopCount = 0 /\ conversationHistory = <<>> /\ nRequests = 0
  /\ text = <<>> /\ rest = <<>> /\ parts = <<>> /\ buffer = <<>>
  /\ currentSection = NULL /\ currentFilePath = <<>> /\ chunks = <<>> /\ streamPc = "off"
  /\ response = <<>> /\ parsed = <<>>
  /\ heap = <<>> /\ filesRef = 0 /\ argRef = 0 /\ applied = <<>> /\ before = <<>>
  /\ outcome = "none" /\ variant = "none"
  /\ manualPc = "none"
  /\ jsonBlobIdPromise = 0 /\ promises = <<>> /\ storedId = <<>> /\ callers = <<>>
  /\ createRequests = 0 /\ established = <<>>

\* handleSendMessage (ProjectEditor.tsx:278) up to the await of
\* streamAIAgentWorkflow; with a clean editor the confirm of line 281 is skipped
handleSendMessageJson ==
  /\ pc = "idle"
  /\ ~isEditorDirty
  /\ isLoading' = TRUE
  /\ wfError' = <<>>
  /\ wfResult' = <<>>
  /\ assistantContent' = <<>>
  /\ responseBuffer' = <<>>
  /\ projectForAI' = projectFiles
  /\ startFiles' = projectFiles
  /\ startStored' = storedFiles
  /\ pc' = "streaming"
  /\ UNCHANGED <<script, loopCount, conversationHistory, nRequests, projectFiles, thoughts,
                 editorVars, storeVars, saveVars, streamed>>
  /\ UNCHANGED nonEditorVars

\* lines 339-391: the stream is over; the buffer is parsed and the batch is
\* applied, up to the await of saveProject
JsonCommit ==
  LET jsonString == StripJsonFence(streamed)
      parsedJson == JsonParse(jsonString)
      explanation == JsonField(parsedJson.value, "explanation")
      operations == JsonField(parsedJson.value, "operations")
      ops == IF operations.t = "array" THEN JsonOperations(operations.items) ELSE <<>>
      currentFiles == ApplyAll(projectFiles, ops)
      editor == EditorAfter(ops, selectedFilePath,
                  [selectedFilePath |-> selectedFilePath, editorContent |-> editorContent,
                   isEditorDirty |-> isEditorDirty])
  IN IF jsonString = <<>>
       THEN /\ CatchJson(ErrEmptyResponse)
            /\ UNCHANGED <<wfResult, projectFiles, editorVars, saveVars>>
     ELSE IF ~parsedJson.ok
       THEN /\ CatchJson(ErrSyntax)
            /\ UNCHANGED <<wfResult, projectFiles, editorVars, saveVars>>
     ELSE /\ wfResult' = <<[explanation |-> explanation.s, operations |-> ops]>>
          /\ selectedFilePath' = editor.selectedFilePath
          /\ editorContent' = editor.editorContent
          /\ isEditorDirty' = editor.isEditorDirty
          /\ projectFiles' = currentFiles
          /\ assistantContent' = <<"text", explanation.s>>
          /\ saveArg' = currentFiles
          /\ saveIdx' = 1
          /\ saveCont' = "json"
          /\ pc' = "save_base"
          /\ UNCHANGED <<wfError, isLoading>>

\* the await of streamAIAgentWorkflow is over: every chunk has been appended
\* to responseBuffer, or the call was rejected
JsonAnswer ==
  /\ pc = "streaming"
  /\ \E rejected \in BOOLEAN :
       IF rejected
       THEN /\ CatchJson(ErrTransport)
            /\ UNCHANGED <<wfResult, projectFiles, editorVars, saveVars, responseBuffer>>
       ELSE /\ responseBuffer' = streamed
            /\ JsonCommit
  /\ UNCHANGED <<script, loopCount, conversationHistory, nRequests, projectForAI, thoughts,
                 storeVars, startVars, streamed>>
  /\ UNCHANGED nonEditorVars

NextJson ==
  \/ handleSendMessageJson
  \/ JsonAnswer
  \/ SaveEnsureBaseDir
  \/ SaveWriteMeta
  \/ SaveCleanDir
  \/ SaveMkdir
  \/ SaveWriteFile
  \/ SaveReturn

SpecJson == InitJson /\ [][NextJson]_vars

\* ---- claims about the JSON dialect -----------------------------------------
\* the handler has received the whole answer and has gone through lines 339-391
JsonAnswered == pc \notin {"idle", "streaming"} /\ responseBuffer = streamed

\* C11: a JSON payload wrapped in chatter and markdown fences, whose content
\* holds braces, is still extracted, and the run yields exactly the
\* operations of the payload.
C11_BracketAwareExtraction ==
  \A b \in JsonBatches, pre \in JsonPrefixes, suf \in JsonSuffixes :
    (JsonAnswered /\ streamed = pre \o Payload(b) \o suf)
      => /\ wfResult # <<>>
         /\ wfResult[1].operations = b

\* the collection after the first k operations of a batch
RECURSIVE AfterFirst(_, _, _)
AfterFirst(files, ops, k) ==
  IF k = 0 THEN files ELSE applyOperation(AfterFirst(files, ops, k - 1), ops[k])

CreateThenUpdate == <<Op("CREATE", "c", "a"), Op("UPDATE", "c", "n")>>
CreateThenDelete == <<Op("CREATE", "c", "a"), OpNoContent("DELETE", "c")>>

\* C17: a batch is applied as a left fold in array order: operation k acts on
\* the collection the first k-1 operations gave.  On the empty collection,
\* [Create(c, "a"), Update(c, "n")] gives [{c, "n"}] and
\* [Create(c, "a"), Delete(c)] gives the empty collection.
C17_BatchIsLeftFold ==
  /\ \A b \in JsonBatches :
       (JsonAnswered /\ streamed = Payload(b))
         => projectFiles = AfterFirst(startFiles, b, Len(b))
  /\ (JsonAnswered /\ streamed = Payload(CreateThenUpdate) /\ startFiles = <<>>)
       => projectFiles = <<File("c", "n")>>
  /\ (JsonAnswered /\ streamed = Payload(CreateThenDelete) /\ startFiles = <<>>)
       => projectFiles = <<>>

C17_Witness ==
  /\ JsonAnswered
  /\ streamed = Payload(<<Op("UPDATE", "a", "n"), OpNoContent("DELETE", "a"), Op("CREATE", "a", "{}")>>)
  /\ startFiles = <<File("a", "x"), File("b", "y")>>
  /\ projectFiles = <<File("b", "y"), File("a", "{}")>>
  /\ pc = "done"

\* ------------------------------------------------------------------------
\* applyOperation on arrays with identity.  An array is a cell of the heap;
\* a spread, a map and a filter allocate a new array, push writes into the
\* array it is called on.  The source holds two applyOperation: the one of
\* ProjectEditor.tsx:42 (the same text as part_006:36) and the one of
\* ProjectEditor.tsx:712.
\* ------------------------------------------------------------------------
MaxOps == 3       \* calls of applyOperation in one run

FirstSnapshot == "ProjectEditor.tsx:42"
SecondSnapshot == "ProjectEditor.tsx:712"

Ref(h, ref) == [heap |-> h, ref |-> ref]

Spread_alias(h, ref) == Ref(h, ref)

\* [...currentFiles]
Spread(h, ref) == Ref(Append(h, h[ref]), Len(h) + 1)

\* updatedFiles.push({ path, content })
Push(h, ref, file) == Ref([h EXCEPT ![ref] = Append(@, file)], ref)

\* a map without the test of the path
MapContent_all(h, ref, path, content) ==
  Ref(Append(h, [i \in 1..Len(h[ref]) |-> File(h[ref][i].path, content)]), Len(h) + 1)

\* updatedFiles.map(f => f.path === path ? { ...f, content } : f)
MapContent(h, ref, path, content) == Ref(Append(h, SetContent(h[ref], path, content)), Len(h) + 1)

Filter_keepAll(h, ref, path) == Ref(Append(h, h[ref]), Len(h) + 1)

\* updatedFiles.filter(f => f.path !== path)
Filter(h, ref, path) == Ref(Append(h, RemovePath(h[ref], path)), Len(h) + 1)

CaseCreate_push(u, path, content, fileExists) == Push(u.heap, u.ref, File(path, content))

\* case 'CREATE'
CaseCreate(u, path, content, fileExists) ==
  IF fileExists THEN MapContent(u.heap, u.ref, path, content)
  ELSE Push(u.heap, u.ref, File(path, content))

CaseUpdate_push(v, u, path, content, fileExists) == Push(u.heap, u.ref, File(path, content))

\* case 'UPDATE': the second snapshot maps only
CaseUpdate(v, u, path, content, fileExists) ==
  IF v = SecondSnapshot THEN MapContent(u.heap, u.ref, path, content)
  ELSE IF ~fileExists THEN Push(u.heap, u.ref, File(path, content))
  ELSE MapContent(u.heap, u.ref, path, content)

\* applyOperation of snapshot v called with the array currentFiles: the heap
\* after the call and the array it returns
applyOperationOn(v, h, currentFiles, operation) ==
  LET updatedFiles == Spread(h, currentFiles)
      path == operation.path
      content == OpContent(operation)
      fileExists == FileExists(updatedFiles.heap[updatedFiles.ref], path)
  IN CASE operation.operation = "CREATE" -> CaseCreate(updatedFiles, path, content, fileExists)
       [] operation.operation = "UPDATE" -> CaseUpdate(v, updatedFiles, path, content, fileExists)
       [] operation.operation = "DELETE" -> Filter(updatedFiles.heap, updatedFiles.ref, path)
       [] OTHER -> updatedFiles   \* default: console.warn

\* collections a project can hold: paths are unique
ReducerFiles ==
  { <<>>,
    <<File("a", "x")>>,
    <<File("b", "n")>>,
    <<File("a", "x"), File("b", "y")>> }

ReducerOperations ==
  {Op(kind, path, content) : kind \in {"CREATE", "UPDATE"}, path \in {"a", "b"}, content \in {"x", "n"}}
    \cup {OpNoContent("CREATE", "a"), OpNoContent("DELETE", "a"), OpNoContent("DELETE", "b"),
          Op("RENAME", "a", "n")}

InitReducer ==
  /\ variant \in {FirstSnapshot, SecondSnapshot}
  /\ \E files \in ReducerFiles : heap = <<files>>
  /\ filesRef = 1
  /\ argRef = 0
  /\ applied = <<>>
  /\ before = <<>>
  /\ outcome = "none"
  \* the editor is idle, nothing is streamed or parsed
  /\ script = <<Answer(<<>>, "ok")>>
  /\ pc = "idle" /\ loopCount = 0 /\ conversationHistory = <<>> /\ nRequests = 0
  /\ wfResult = <<>> /\ wfError = <<>>
  /\ projectFiles = <<>> /\ projectForAI = <<>>
  /\ thoughts = <<>> /\ assistantContent = <<>>
  /\ selectedFilePath = NULL /\ editorContent = "" /\ isEditorDirty = FALSE
  /\ isLoading = FALSE
  /\ storedFiles = <<>> /\ storedMeta = <<>>
  /\ saveArg = <<>> /\ saveIdx = 0 /\ saveCont = "none"
  /\ startFiles = <<>> /\ startStored = <<>>
  /\ text = <<>> /\ rest = <<>> /\ parts = <<>> /\ buffer = <<>>
  /\ currentSection = NULL /\ currentFilePath = <<>> /\ chunks = <<>> /\ streamPc = "off"
  /\ response = <<>> /\ parsed = <<>>
  /\ streamed = <<>> /\ responseBuffer = <<>>
  /\ manualPc = "none"
  /\ jsonBlobIdPromise = 0 /\ promises = <<>> /\ storedId = <<>> /\ callers = <<>>
  /\ createRequests = 0 /\ established = <<>>

\* currentFiles = applyOperation(currentFiles, op): the caller keeps what the
\* call returns; the function has no throw statement
ApplyOperation ==
  /\ Len(applied) < MaxOps
  /\ \E operation \in ReducerOperations :
       LET result == applyOperationOn(variant, heap, filesRef, operation)
       IN /\ heap' = result.heap
          /\ filesRef' = result.ref
          /\ argRef' = filesRef
          /\ applied' = Append(applied, operation)
          /\ before' = Append(before, heap[filesRef])
          /\ outcome' = "returned"
  /\ UNCHANGED variant
  /\ UNCHANGED nonReducerVars

NextReducer == ApplyOperation

SpecReducer == InitReducer /\ [][NextReducer]_vars

\* ---- claims about the reducer ----------------------------------------------
Called == applied # <<>>
LastOp == applied[Len(applied)]
\* what the collection held when the last call was made, and what the
\* returned array holds
Input == before[Len(before)]
Result == heap[filesRef]

\* C13: Update on a path the collection does not hold adds the file at the
\* end; from the empty collection, Update(p, "x") gives [{p, "x"}].
C13_UpdateAbsentAdds ==
  (Called /\ LastOp.operation = "UPDATE" /\ ~FileExists(Input, LastOp.path))
    => Result = Append(Input, File(LastOp.path, OpContent(LastOp)))

\* the positions of the entries with this path
Holding(files, path) == {i \in 1..Len(files) : files[i].path = path}

\* C14: Create on a path the collection already holds overwrites the content
\* of that entry in place; no second entry for the path is added and every
\* other entry stays as it was.
C14_CreateExistingOverwrites ==
  (Called /\ LastOp.operation = "CREATE" /\ Holding(Input, LastOp.path) # {})
    => /\ Len(Result) = Len(Input)
       /\ Holding(Result, LastOp.path) = Holding(Input, LastOp.path)
       /\ Cardinality(Holding(Result, LastOp.path)) = 1
       /\ \A i \in 1..Len(Input) :
            IF Input[i].path = LastOp.path
              THEN Result[i].content = OpContent(LastOp)
              ELSE Result[i] = Input[i]

C14_Witness ==
  /\ Called
  /\ LastOp = Op("CREATE", "a", "n")
  /\ Input = <<File("a", "x"), File("b", "y")>>
  /\ Result = <<File("a", "n"), File("b", "y")>>

\* C15: Delete removes the entry with the path and keeps the others in
\* order; on a path the collection does not hold it returns an equal
\* collection, and in both cases the call returns without an error.
C15_DeleteRemoves ==
  (Called /\ LastOp.operation = "DELETE")
    => /\ outcome = "returned"
       /\ Holding(Result, LastOp.path) = {}
       /\ Result = SelectSeq(Input, LAMBDA f : f.path # LastOp.path)
       /\ Holding(Input, LastOp.path) = {} => Result = Input

C15_Witness ==
  /\ Len(applied) = 2
  /\ applied[1] = OpNoContent("DELETE", "a")
  /\ applied[2] = OpNoContent("DELETE", "a")
  /\ before = << <<File("a", "x"), File("b", "y")>>, <<File("b", "y")>> >>
  /\ Result = <<File("b", "y")>>
  /\ outcome = "returned"

\* C16: Update is idempotent: the same Update applied twice in succession
\* leaves the collection the first application gave.
C16_UpdateIdempotent ==
  \A k \in 2..Len(applied) :
    (applied[k].operation = "UPDATE" /\ applied[k - 1] = applied[k])
      => (IF k = Len(applied) THEN Result ELSE before[k + 1]) = before[k]

C16_Witness ==
  /\ Len(applied) = 2
  /\ applied[1] = Op("UPDATE", "a", "n")
  /\ applied[2] = Op("UPDATE", "a", "n")
  /\ before = << <<File("a", "x")>>, <<File("a", "n")>> >>
  /\ Result = <<File("a", "n")>>

PathsUnique(files) == \A i, j \in 1..Len(files) : files[i].path = files[j].path => i = j

\* C18: the reducer keeps paths unique: called on a collection in which no
\* two entries share a path, it returns such a collection, for every operation.
C18_PathsStayUnique ==
  (Called /\ PathsUnique(Input)) => PathsUnique(Result)

C18_Witness ==
  /\ Len(applied) = MaxOps
  /\ LastOp.operation \in {"CREATE", "UPDATE"}
  /\ Holding(Input, LastOp.path) # {}
  /\ Len(Input) = 2
  /\ PathsUnique(Input)
  /\ PathsUnique(Result)

\* C19: applyOperation does not change the array it is given: after the call
\* that array holds what it held before, and the result is another array.
C19_InputNotMutated ==
  Called => /\ heap[argRef] = Input
            /\ filesRef # argRef

C19_Witness ==
  /\ Called
  /\ LastOp = Op("CREATE", "b", "n")
  /\ Input = <<File("a", "x")>>
  /\ heap[argRef] = <<File("a", "x")>>
  /\ Result = <<File("a", "x"), File("b", "n")>>

\* C20: an operation whose kind is none of CREATE, UPDATE, DELETE makes
\* applyOperation fail with MalformedOperation; no collection is returned as
\* if the operation had been applied or skipped.
C20_UnknownKindFails ==
  (Called /\ LastOp.operation \notin {"CREATE", "UPDATE", "DELETE"})
    => outcome = "MalformedOperation"

\* what two calls in a row return for a collection held in a fresh array
TwoCalls(v, files, first, second) ==
  LET r1 == applyOperationOn(v, <<files>>, 1, first)
      r2 == applyOperationOn(v, r1.heap, r1.ref, second)
  IN r2.heap[r2.ref]

\* the last two operations, applied in the other order to what the
\* collection held before them
Swapped ==
  TwoCalls(variant, before[Len(before) - 1], applied[Len(applied)], applied[Len(applied) - 1])

\* C25: operations on different paths are order-independent: on a collection
\* with unique paths, two operations on paths p # q give the same
\* path-to-content mapping in either order.
C25_DifferentPathsCommute ==
  ( /\ Len(applied) >= 2
    /\ applied[Len(applied)].path # applied[Len(applied) - 1].path
    /\ PathsUnique(before[Len(before) - 1]) )
  => FileSet(Result) = FileSet(Swapped)

\* the two orders give the entries in different positions, and the same mapping
C25_Witness ==
  /\ applied = <<Op("CREATE", "b", "n"), Op("UPDATE", "a", "n")>>
  /\ before[1] = <<>>
  /\ Result = <<File("b", "n"), File("a", "n")>>
  /\ Swapped = <<File("a", "n"), File("b", "n")>>

\* ------------------------------------------------------------------------
\* getBlobId, invalidateJsonBlobId and getProjects of projectService (the
\* JSON Blob store).  A promise is an entry of promises; the id a create
\* request returns is the index of the attempt that issued it, the id found
\* in localStorage at the start is 0.
\* ------------------------------------------------------------------------
MaxAttempts == 3  \* promises created by getBlobId in one run

Callers == {"A", "B"}

Pending == [state |-> "pending", value |-> 0, error |-> "none"]
Resolved(id) == [state |-> "resolved", value |-> id, error |-> "none"]
Rejected(kind) == [state |-> "rejected", value |-> 0, error |-> kind]

\* what a getBlobId() call does before it returns: the promise returned, and
\* the module variable, the promises and the requests after the call
getBlobId ==
  IF jsonBlobIdPromise # 0
  THEN [promise |-> jsonBlobIdPromise, cache |-> jsonBlobIdPromise, all |-> promises,
        requests |-> createRequests]
  ELSE IF storedId # <<>>
  THEN [promise |-> Len(promises) + 1, cache |-> Len(promises) + 1,
        all |-> Append(promises, Resolved(storedId[1])), requests |-> createRequests]
  ELSE [promise |-> Len(promises) + 1, cache |-> Len(promises) + 1,
        all |-> Append(promises, Pending), requests |-> createRequests + 1]

\* getBlobId() called with the module variable null and no stored id, as
\* after invalidateJsonBlobId()
getBlobIdFresh ==
  [promise |-> Len(promises) + 1, cache |-> Len(promises) + 1,
   all |-> Append(promises, Pending), requests |-> createRequests + 1]

Idle == [pc |-> "idle", promise |-> 0, expect |-> <<>>, got |-> <<>>, rejected |-> FALSE]

InitBlob ==
  /\ jsonBlobIdPromise = 0
  /\ promises = <<>>
  /\ storedId \in {<<>>, <<0>>}
  /\ callers = [c \in Callers |-> Idle]
  /\ createRequests = 0
  /\ established = <<>>
  \* the editor is idle, nothing is streamed, parsed or reduced
  /\ script = <<Answer(<<>>, "ok")>>
  /\ pc = "idle" /\ loopCount = 0 /\ conversationHistory = <<>> /\ nRequests = 0
  /\ wfResult = <<>> /\ wfError = <<>>
  /\ projectFiles = <<>> /\ projectForAI = <<>>
  /\ thoughts = <<>> /\ assistantContent = <<>>
  /\ selectedFilePath = NULL /\ editorContent = "" /\ isEditorDirty = FALSE
  /\ isLoading = FALSE
  /\ storedFiles = <<>> /\ storedMeta = <<>>
  /\ saveArg = <<>> /\ saveIdx = 0 /\ saveCont = "none"
  /\ startFiles = <<>> /\ startStored = <<>>
  /\ text = <<>> /\ rest = <<>> /\ parts = <<>> /\ buffer = <<>>
  /\ currentSection = NULL /\ currentFilePath = <<>> /\ chunks = <<>> /\ streamPc = "off"
  /\ response = <<>> /\ parsed = <<>>
  /\ streamed = <<>> /\ responseBuffer = <<>>
  /\ heap = <<>> /\ filesRef = 0 /\ argRef = 0 /\ applied = <<>> /\ before = <<>>
  /\ outcome = "none" /\ variant = "none"
  /\ manualPc = "none"

\* getProjects() up to `await getBlobId()` (line 200)
GetProjects(c) ==
  /\ callers[c].pc = "idle"
  /\ jsonBlobIdPromise # 0 \/ Len(promises) < MaxAttempts
  /\ LET call == getBlobId
     IN /\ jsonBlobIdPromise' = call.cache
        /\ promises' = call.all
        /\ createRequests' = call.requests
        /\ callers' = [callers EXCEPT ![c] = [pc |-> "await_id", promise |-> call.promise,
                                              expect |-> established, got |-> <<>>,
                                              rejected |-> FALSE]]
  /\ UNCHANGED <<storedId, established>>
  /\ UNCHANGED nonBlobVars

\* the POST of attempt p settles: the rest of the async function of getBlobId
CreateSettles(p) ==
  /\ p <= Len(promises)
  /\ promises[p].state = "pending"
  /\ \E result \in {"ok", "Error", "TypeError"} :
       IF result = "ok"
       THEN /\ storedId' = <<p>>
            /\ promises' = [promises EXCEPT ![p] = Resolved(p)]
            /\ established' = <<p>>
            /\ UNCHANGED jsonBlobIdPromise
       ELSE \* catch: jsonBlobIdPromise = null; throw error
            /\ jsonBlobIdPromise' = 0
            /\ promises' = [promises EXCEPT ![p] = Rejected(result)]
            /\ UNCHANGED <<storedId, established>>
  /\ UNCHANGED <<callers, createRequests>>
  /\ UNCHANGED nonBlobVars

\* invalidateJsonBlobId(); await getBlobId() of lines 209-210 and 224-225
Recreate(c) ==
  /\ storedId' = <<>>
  /\ established' = <<>>
  /\ jsonBlobIdPromise' = getBlobIdFresh.cache
  /\ promises' = getBlobIdFresh.all
  /\ createRequests' = getBlobIdFresh.requests
  /\ callers' = [callers EXCEPT ![c] = [pc |-> "await_new", promise |-> getBlobIdFresh.promise,
                                        expect |-> <<>>, got |-> <<>>, rejected |-> FALSE]]

\* the await of line 200 resumes: the GET is issued, or the catch block runs
GotBlobId(c) ==
  /\ callers[c].pc = "await_id"
  /\ promises[callers[c].promise].state # "pending"
  /\ LET settled == promises[callers[c].promise]
     IN IF settled.state = "resolved"
        THEN /\ callers' = [callers EXCEPT ![c].pc = "get", ![c].got = <<settled.value>>]
             /\ UNCHANGED <<jsonBlobIdPromise, promises, storedId, createRequests, established>>
        ELSE IF settled.error = "TypeError"
        THEN Len(promises) < MaxAttempts /\ Recreate(c)
        ELSE /\ callers' = [callers EXCEPT ![c].pc = "idle", ![c].rejected = TRUE]
             /\ UNCHANGED <<jsonBlobIdPromise, promises, storedId, createRequests, established>>
  /\ UNCHANGED nonBlobVars

\* the GET of line 202 settles
GetSettles(c) ==
  /\ callers[c].pc = "get"
  /\ \E result \in {"ok", "gone", "status", "TypeError"} :
       IF result \in {"gone", "TypeError"}
       THEN Len(promises) < MaxAttempts /\ Recreate(c)
       ELSE /\ callers' = [callers EXCEPT ![c].pc = "idle"]
            /\ UNCHANGED <<jsonBlobIdPromise, promises, storedId, createRequests, established>>
  /\ UNCHANGED nonBlobVars

\* the await of line 210 or 225 resumes: getProjects returns [] or rejects
Recreated(c) ==
  /\ callers[c].pc = "await_new"
  /\ promises[callers[c].promise].state # "pending"
  /\ callers' = [callers EXCEPT ![c].pc = "idle"]
  /\ UNCHANGED <<jsonBlobIdPromise, promises, storedId, createRequests, established>>
  /\ UNCHANGED nonBlobVars

NextBlob ==
  \/ \E c \in Callers : GetProjects(c)
  \/ \E p \in 1..MaxAttempts : CreateSettles(p)
  \/ \E c \in Callers : GotBlobId(c)
  \/ \E c \in Callers : GetSettles(c)
  \/ \E c \in Callers : Recreated(c)

SpecBlob == InitBlob /\ [][NextBlob]_vars

\* ---- claims about the memoized blob id -------------------------------------
\* C26: a failed attempt of getBlobId is never left in the module variable,
\* and once an attempt has succeeded, every getBlobId call made before the
\* next invalidateJsonBlobId returns the id of that success and issues no
\* create request, whatever the interleaving of the callers.
C26_MemoizedBlobId ==
  /\ [](jsonBlobIdPromise # 0 => promises[jsonBlobIdPromise].state # "rejected")
  /\ [](\A c \in Callers :
          (callers[c].expect # <<>> /\ callers[c].pc # "await_id")
            => ~callers[c].rejected /\ callers[c].got = callers[c].expect)
  /\ [][established # <<>> /\ established' = established
          => createRequests' = createRequests]_vars

====
